---------------------------- MODULE Spec2Model ----------------------------
(***************************************************************************)
(* Model of the store-rating backend (backend/server.js): the request      *)
(* middleware (validateUserPayload, authenticateToken, authorizeRoles),    *)
(* the route handlers and the statements they send to the relational      *)
(* store.                                                                  *)
(*                                                                         *)
(* Strings are sequences of one-character strings, so that trimming,       *)
(* lower-casing and the two regular expressions are computed on the        *)
(* characters.  An absent body field and the empty string are both the     *)
(* empty sequence: every handler tests the fields with `!field` before     *)
(* anything else, which does not tell them apart.                          *)
(***************************************************************************)
EXTENDS Integers, Sequences, FiniteSets, TLC

VARIABLES users, stores, ratings, now, req, probe, localStorage, elapsed

vars == <<users, stores, ratings, now, req, probe, localStorage, elapsed>>

---------------------------------------------------------------------------
(* Bounds of the model.                                                    *)

\* requests sent in one behaviour
MaxSends == 3

\* longest declared role list handed to authorizeRoles
MaxRoles == 3

---------------------------------------------------------------------------
(* Program constants.                                                      *)

NameMin == 20
NameMax == 60
AddressMax == 400
PasswordMin == 8
PasswordMax == 16
RatingMin == 1
RatingMax == 5
\* expiresIn: "1d", in seconds
ExpiresIn == 86400

---------------------------------------------------------------------------
(* Characters and strings.                                                 *)

UpperSeq ==
  <<"A","B","C","D","E","F","G","H","I","J","K","L","M",
    "N","O","P","Q","R","S","T","U","V","W","X","Y","Z">>

LowerSeq ==
  <<"a","b","c","d","e","f","g","h","i","j","k","l","m",
    "n","o","p","q","r","s","t","u","v","w","x","y","z">>

UpperChars == { UpperSeq[i] : i \in 1..Len(UpperSeq) }

\* the class [!@#$%^&*()_+\-=\[\]{};':"\\|,.<>\/?] of passwordRegex
SpecialChars ==
  { "!","@","#","$","%","^","&","*","(",")","_","+","-","=","[","]",
    "{","}",";","'",":","\"","\\","|",",",".","<",">","/","?" }

\* what \s matches and what trim() strips
WhiteSpace == { " ", "\t", "\n", "\r" }

\* what the regular expression's . does not match
LineTerminators == { "\n", "\r" }

Rep(ch, n) == [ i \in 1..n |-> ch ]

ToLowerChar(ch) ==
  IF ch \in UpperChars
    THEN LowerSeq[CHOOSE i \in 1..Len(UpperSeq) : UpperSeq[i] = ch]
    ELSE ch

\* a faulty toLowerCase: the string as it is
IdentityCase(s) == s

toLowerCase(s) == [ i \in 1..Len(s) |-> ToLowerChar(s[i]) ]

\* the first position from i on that holds no white space
RECURSIVE FirstKept(_, _)
FirstKept(s, i) ==
  IF i > Len(s) \/ s[i] \notin WhiteSpace THEN i ELSE FirstKept(s, i + 1)

\* the last position up to i that holds no white space
RECURSIVE LastKept(_, _)
LastKept(s, i) ==
  IF i < 1 \/ s[i] \notin WhiteSpace THEN i ELSE LastKept(s, i - 1)

\* String.prototype.trim
trim(s) ==
  IF FirstKept(s, 1) > LastKept(s, Len(s)) THEN <<>>
  ELSE SubSeq(s, FirstKept(s, 1), LastKept(s, Len(s)))

---------------------------------------------------------------------------
(* validateUserPayload.                                                    *)

\* /^(?=.{8,16}$)(?=.*[A-Z])(?=.*[special]).*$/.test(p)
passwordRegex(p) ==
  /\ Len(p) >= PasswordMin
  /\ Len(p) <= PasswordMax
  /\ \A i \in 1..Len(p) : p[i] \notin LineTerminators
  /\ \E i \in 1..Len(p) : p[i] \in UpperChars
  /\ \E i \in 1..Len(p) : p[i] \in SpecialChars

\* /^[^\s@]+@[^\s@]+\.[^\s@]+$/.test(e)
emailRegex(e) ==
  \E i \in 2..Len(e), j \in 3..Len(e) :
    /\ e[i] = "@"
    /\ e[j] = "."
    /\ i + 1 < j
    /\ j < Len(e)
    /\ \A k \in 1..Len(e) : k # i => e[k] \notin (WhiteSpace \cup {"@"})

\* a faulty literal: without the lookahead for an uppercase letter
newPasswordRegexNoUpper(p) ==
  /\ \A i \in 1..Len(p) : p[i] \notin LineTerminators
  /\ Len(p) \in PasswordMin..PasswordMax
  /\ \E i \in 1..Len(p) : p[i] \in SpecialChars

\* the passwordRegex literal of PUT /users/:id/password:
\* /^(?=.{8,16}$)(?=.*[A-Z])(?=.*[special]).*$/.test(p)
newPasswordRegex(p) ==
  /\ \A i \in 1..Len(p) : p[i] \notin LineTerminators
  /\ Len(p) \in PasswordMin..PasswordMax
  /\ \E i \in 1..Len(p) : p[i] \in UpperChars
  /\ \E i \in 1..Len(p) : p[i] \in SpecialChars

Reject(status, message) == [ ok |-> FALSE, status |-> status, message |-> message ]

Pass == [ ok |-> TRUE, status |-> 0, message |-> "" ]

\* a faulty length test: name.length without trim()
NameTooShortUntrimmed(name) == Len(name) < NameMin

NameTooShort(name) == Len(trim(name)) < NameMin

NameTooLong(name) == Len(trim(name)) > NameMax

AddressTooLong(address) == Len(address) > AddressMax

\* a faulty order: the email tested before the password
validateUserPayloadEmailFirst(body) ==
  IF body.name = <<>> \/ body.email = <<>> \/ body.password = <<>> \/ body.address = <<>>
    THEN Reject(400, "All fields are required.")
  ELSE IF NameTooShort(body.name) \/ NameTooLong(body.name)
    THEN Reject(400, "Name must be between 20 and 60 characters.")
  ELSE IF AddressTooLong(body.address)
    THEN Reject(400, "Address must be at most 400 characters.")
  ELSE IF ~emailRegex(body.email)
    THEN Reject(400, "Invalid email address.")
  ELSE IF ~passwordRegex(body.password)
    THEN Reject(400, "Password must be 8-16 characters, include at least one uppercase letter and one special character.")
  ELSE Pass

validateUserPayload(body) ==
  IF body.name = <<>> \/ body.email = <<>> \/ body.password = <<>> \/ body.address = <<>>
    THEN Reject(400, "All fields are required.")
  ELSE IF NameTooShort(body.name) \/ NameTooLong(body.name)
    THEN Reject(400, "Name must be between 20 and 60 characters.")
  ELSE IF AddressTooLong(body.address)
    THEN Reject(400, "Address must be at most 400 characters.")
  ELSE IF ~passwordRegex(body.password)
    THEN Reject(400, "Password must be 8-16 characters, include at least one uppercase letter and one special character.")
  ELSE IF ~emailRegex(body.email)
    THEN Reject(400, "Invalid email address.")
  ELSE Pass

---------------------------------------------------------------------------
(* Roles.                                                                  *)

Roles == { "normal", "store_owner", "admin" }

\* a faulty normalizeRole: compared without toLowerCase()
normalizeRoleCaseSensitive(inputRole) ==
  IF inputRole = <<>> THEN "normal"
  ELSE IF inputRole = <<"a","d","m","i","n">> THEN "admin"
  ELSE IF \/ inputRole = <<"s","t","o","r","e","_","o","w","n","e","r">>
          \/ inputRole = <<"o","w","n","e","r">>
          \/ inputRole = <<"s","t","o","r","e","o","w","n","e","r">>
    THEN "store_owner"
  ELSE "normal"

normalizeRole(inputRole) ==
  LET r == toLowerCase(inputRole) IN
  IF inputRole = <<>> THEN "normal"
  ELSE IF r = <<"a","d","m","i","n">> THEN "admin"
  ELSE IF \/ r = <<"s","t","o","r","e","_","o","w","n","e","r">>
          \/ r = <<"o","w","n","e","r">>
          \/ r = <<"s","t","o","r","e","o","w","n","e","r">>
    THEN "store_owner"
  ELSE "normal"

---------------------------------------------------------------------------
(* Tokens: jwt.sign at login, jwt.verify in authenticateToken.             *)

NoToken == [ sig |-> "none", id |-> 0, role |-> "", iat |-> 0, exp |-> 0 ]

\* jwt.sign({ id, role }, secret, { expiresIn: "1d" }) at time t; the library
\* adds the claims iat = t and exp = iat + 86400
jwtSign(id, role, t) ==
  [ sig |-> "valid", id |-> id, role |-> role, iat |-> t, exp |-> t + ExpiresIn ]

\* a token that was not signed with the server's secret
Forged(id, role, t) ==
  [ sig |-> "forged", id |-> id, role |-> role, iat |-> t, exp |-> t + ExpiresIn ]

\* jwt.verify(token, secret) at time t: the signature, then the exp claim
jwtVerify(token, t) == token.sig = "valid" /\ t < token.exp

\* a faulty authenticateToken: every refusal answered like a role refusal
authenticateTokenSameOutcome(token, t) ==
  IF token.sig = "none" THEN Reject(403, "Access denied")
  ELSE IF ~jwtVerify(token, t) THEN Reject(403, "Access denied")
  ELSE Pass

authenticateToken(token, t) ==
  IF token.sig = "none" THEN Reject(401, "No token provided")
  ELSE IF ~jwtVerify(token, t) THEN Reject(403, "Invalid token")
  ELSE Pass

RECURSIVE RoleListed(_, _)
RoleListed(roles, role) ==
  IF roles = <<>> THEN FALSE
  ELSE IF Head(roles) = role THEN TRUE
  ELSE RoleListed(Tail(roles), role)

\* a faulty authorizeRoles: without the admin override
authorizeRolesNoOverride(roles, role) ==
  IF role = "" THEN Reject(401, "Unauthorized")
  ELSE IF RoleListed(roles, role) THEN Pass
  ELSE Reject(403, "Access denied")

authorizeRoles(roles, role) ==
  IF role = "" THEN Reject(401, "Unauthorized")
  ELSE IF role = "admin" THEN Pass
  ELSE IF RoleListed(roles, role) THEN Pass
  ELSE Reject(403, "Access denied")

---------------------------------------------------------------------------
(* Routes and their middleware.                                            *)

SignupRoute == "POST /signup"
LoginRoute == "POST /login"
AddUserRoute == "POST /users"
AddStoreRoute == "POST /stores"
DashboardRoute == "GET /admin/dashboard"
PasswordRoute == "PUT /users/:id/password"
ListUsersRoute == "GET /users"
ListStoresRoute == "GET /stores"
RatingRoute == "POST /ratings"
OwnerRoute == "GET /owner/:id/ratings"
StoreRatingsRoute == "GET /ratings/:store_id"
AverageRoute == "GET /stores/:id/average-rating"

\* the routes registered with authenticateToken
BearerRoutes ==
  { AddUserRoute, AddStoreRoute, DashboardRoute, PasswordRoute,
    ListUsersRoute, ListStoresRoute, RatingRoute, OwnerRoute }

\* a faulty registration: POST /stores without authorizeRoles("admin")
GatedRoutesWithoutStores == { AddUserRoute, DashboardRoute, ListUsersRoute, OwnerRoute }

\* the routes registered with authorizeRoles(...)
GatedRoutes == { AddUserRoute, AddStoreRoute, DashboardRoute, ListUsersRoute, OwnerRoute }

\* the routes registered with validateUserPayload
ValidatedRoutes == { SignupRoute, AddUserRoute }

DeclaredRoles(route) ==
  IF route = OwnerRoute THEN <<"store_owner">> ELSE <<"admin">>

---------------------------------------------------------------------------
(* Request bodies.  A JSON number is held in halves (h = 2 * value) so     *)
(* that 2.5 is a value of the model; "nan" is a string that is no number.  *)

Null == [ t |-> "null", h |-> 0 ]

Num(h) == [ t |-> "num", h |-> h ]

NotANumber == [ t |-> "nan", h |-> 0 ]

\* rating == null
IsNullish(v) == v.t = "null"

\* a faulty lower bound: rating < 0
BelowZero(v) == v.t = "num" /\ v.h < 0

\* rating < 1
BelowMin(v) == v.t = "num" /\ v.h < 2 * RatingMin

\* rating > 5
AboveMax(v) == v.t = "num" /\ v.h > 2 * RatingMax

IsInteger(v) == v.t = "num" /\ v.h % 2 = 0

NoBody ==
  [ name |-> <<>>, email |-> <<>>, password |-> <<>>, address |-> <<>>,
    role |-> <<>>, store_id |-> 0, rating |-> Null, owner_id |-> 0, id |-> 0,
    user_id |-> 0, sortBy |-> <<>>, order |-> <<>>, ownerId |-> 0 ]

UserBody(name, email, password, address, role) ==
  [ NoBody EXCEPT !.name = name, !.email = email, !.password = password,
                  !.address = address, !.role = role ]

RatingBody(store_id, rating) ==
  [ NoBody EXCEPT !.store_id = store_id, !.rating = rating ]

StoreBody(name, address, owner_id) ==
  [ NoBody EXCEPT !.name = name, !.address = address, !.owner_id = owner_id ]

\* the path segment "undefined", which a template literal makes of a value
\* that is not there; it reads as no number, and no row has it as id
UndefinedId == -1

PasswordBody(id, password) ==
  [ NoBody EXCEPT !.id = id, !.password = password ]

OwnerParams(id) == [ NoBody EXCEPT !.id = id ]

LoginBody(email, password) == [ NoBody EXCEPT !.email = email, !.password = password ]

Request(route, token, body) == [ route |-> route, token |-> token, body |-> body ]

---------------------------------------------------------------------------
(* The synchronous part of each handler: what runs before its first await. *)

Await == [ ok |-> TRUE, status |-> 0, message |-> "" ]

\* POST /ratings, up to the query
ratingChecks(body) ==
  IF body.store_id = 0 \/ IsNullish(body.rating)
    THEN Reject(400, "Store and rating required")
  ELSE IF BelowMin(body.rating) \/ AboveMax(body.rating)
    THEN Reject(400, "Rating must be between 1 and 5")
  ELSE Await

\* POST /stores, up to the query
storeChecks(body) ==
  IF body.name = <<>> \/ body.address = <<>> \/ body.owner_id = 0
    THEN Reject(400, "All fields are required.")
  ELSE Await

\* a faulty test: only the role normal is held to its own id
notSelfAndNormal(token, id) == token.id # id /\ token.role = "normal"

\* req.user.id !== parseInt(id) && req.user.role !== "admin"
notSelfNorAdmin(token, id) == token.id # id /\ token.role # "admin"

\* PUT /users/:id/password, up to the hash
passwordChecks(token, body) ==
  IF notSelfNorAdmin(token, body.id) THEN Reject(403, "Access denied")
  ELSE IF body.password = <<>> THEN Reject(400, "Password is required")
  ELSE IF ~newPasswordRegex(body.password)
    THEN Reject(400, "Password must be 8-16 characters, include at least one uppercase letter and one special character.")
  ELSE Await

\* POST /login, up to the query
loginChecks(body) ==
  IF body.email = <<>> \/ body.password = <<>>
    THEN Reject(400, "Email and password required.")
  ELSE Await

\* a faulty handler: no test of the id in the path
ownerChecksAnyId(token, body) == Await

\* GET /owner/:id/ratings, up to the first query
ownerChecks(token, body) ==
  IF notSelfNorAdmin(token, body.id) THEN Reject(403, "Access denied") ELSE Await

handlerSync(r) ==
  IF r.route = RatingRoute THEN ratingChecks(r.body)
  ELSE IF r.route = AddStoreRoute THEN storeChecks(r.body)
  ELSE IF r.route = PasswordRoute THEN passwordChecks(r.token, r.body)
  ELSE IF r.route = OwnerRoute THEN ownerChecks(r.token, r.body)
  ELSE IF r.route = LoginRoute THEN loginChecks(r.body)
  ELSE Await

\* a faulty chain: validateUserPayload registered before authorizeRoles
dispatchValidatesFirst(r, t) ==
  LET a == IF r.route \in BearerRoutes THEN authenticateToken(r.token, t) ELSE Pass
      z == IF r.route \in GatedRoutes
             THEN authorizeRoles(DeclaredRoles(r.route), r.token.role)
             ELSE Pass
      v == IF r.route \in ValidatedRoutes THEN validateUserPayload(r.body) ELSE Pass
      h == handlerSync(r)
      out(x, ran) == [ ok |-> x.ok, status |-> x.status, message |-> x.message, ran |-> ran ]
  IN  IF ~a.ok THEN out(a, FALSE)
      ELSE IF ~v.ok THEN out(v, FALSE)
      ELSE IF ~z.ok THEN out(z, FALSE)
      ELSE out(h, TRUE)

\* The chain express runs for a request that arrives at time t:
\* authenticateToken, authorizeRoles(...), validateUserPayload, the handler.
\* ran: whether the handler was entered.
dispatch(r, t) ==
  LET a == IF r.route \in BearerRoutes THEN authenticateToken(r.token, t) ELSE Pass
      z == IF r.route \in GatedRoutes
             THEN authorizeRoles(DeclaredRoles(r.route), r.token.role)
             ELSE Pass
      v == IF r.route \in ValidatedRoutes THEN validateUserPayload(r.body) ELSE Pass
      h == handlerSync(r)
      out(x, ran) == [ ok |-> x.ok, status |-> x.status, message |-> x.message, ran |-> ran ]
  IN  IF ~a.ok THEN out(a, FALSE)
      ELSE IF ~z.ok THEN out(z, FALSE)
      ELSE IF ~v.ok THEN out(v, FALSE)
      ELSE out(h, TRUE)

---------------------------------------------------------------------------
(* The relational store and the statements sent to it.                     *)

\* the head of a bcryptjs hash string of cost 10: "$2a$10$"
HashPrefix == <<"$","2","a","$","1","0","$">>

\* a faulty hash: the password as it is
bcryptHashPlain(password) == password

\* bcrypt.hash(password, 10): a string that starts with the version and the
\* cost and goes on with a digest that determines the password
bcryptHash(password) == HashPrefix \o password

\* bcrypt.compare(password, hash)
bcryptCompare(password, hash) == hash = HashPrefix \o password

\* email.toLowerCase(), the second parameter of the INSERT
normalizeEmail(email) == toLowerCase(email)

\* users.email is UNIQUE: the violation the handlers catch as code 23505
uniqueEmailViolation(us, email) == \E i \in 1..Len(us) : us[i].email = email

\* the defaults of the created_at columns: NOW()
columnDefaults(ts) == [ created_at |-> ts, updated_at |-> ts ]

userRow(us, body, ts) ==
  [ id |-> Len(us) + 1,
    name |-> trim(body.name),
    email |-> normalizeEmail(body.email),
    password |-> bcryptHash(body.password),
    user_role |-> normalizeRole(body.role),
    address |-> trim(body.address),
    created_at |-> columnDefaults(ts).created_at ]

Result(table, status, message) == [ table |-> table, status |-> status, message |-> message ]

\* a faulty catch: the unique violation answered 201
insertUserConflictCreated(us, body, ts) ==
  IF uniqueEmailViolation(us, normalizeEmail(body.email))
    THEN Result(us, 201, "")
    ELSE Result(Append(us, userRow(us, body, ts)), 201, "")

\* INSERT INTO users ... RETURNING ..., and the catch
insertUser(us, body, ts) ==
  IF uniqueEmailViolation(us, normalizeEmail(body.email))
    THEN Result(us, 409, "Email already exists.")
    ELSE Result(Append(us, userRow(us, body, ts)), 201, "")

\* whether stores.owner_id is checked against users.id when a row is
\* inserted: addStore makes no referential check
ownerReferenceEnforced == FALSE

\* INSERT INTO stores ... RETURNING *
insertStore(ss, body, ts) ==
  Result(Append(ss, [ id |-> Len(ss) + 1, name |-> trim(body.name),
                      address |-> trim(body.address), owner_id |-> body.owner_id,
                      created_at |-> columnDefaults(ts).created_at ]),
         201, "")

\* a faulty UPDATE: it also sets user_role
updatePasswordAndRole(us, body) ==
  Result([ i \in 1..Len(us) |->
             IF us[i].id = body.id
               THEN [ us[i] EXCEPT !.password = bcryptHash(body.password),
                                   !.user_role = "normal" ]
               ELSE us[i] ],
         200, "Password updated successfully")

\* users.id is an integer column: a parameter compared with it must read
\* as an integer
idColumnAccepts(id) == id # UndefinedId

\* UPDATE users SET password = $1 WHERE id = $2, and the catch
updatePassword(us, body) ==
  IF ~idColumnAccepts(body.id) THEN Result(us, 500, "Server error")
  ELSE Result([ i \in 1..Len(us) |->
                  IF us[i].id = body.id
                    THEN [ us[i] EXCEPT !.password = bcryptHash(body.password) ]
                    ELSE us[i] ],
              200, "Password updated successfully")

\* a faulty login: the unknown email answered with a message of its own
loginTellsUnknown(us, body, t) ==
  LET found == { i \in 1..Len(us) : us[i].email = toLowerCase(body.email) } IN
  IF found = {}
    THEN [ status |-> 401, message |-> "User not found.", token |-> NoToken ]
  ELSE LET user == us[CHOOSE i \in found : TRUE] IN
    IF ~bcryptCompare(body.password, user.password)
      THEN [ status |-> 401, message |-> "Invalid credentials.", token |-> NoToken ]
    ELSE [ status |-> 200, message |-> "",
           token |-> jwtSign(user.id, user.user_role, t) ]

\* a faulty login: the token signed with the role the default gives
loginSignsDefaultRole(us, body, t) ==
  LET found == { i \in 1..Len(us) : us[i].email = toLowerCase(body.email) } IN
  IF found = {}
    THEN [ status |-> 401, message |-> "Invalid credentials.", token |-> NoToken ]
  ELSE LET user == us[CHOOSE i \in found : TRUE] IN
    IF ~bcryptCompare(body.password, user.password)
      THEN [ status |-> 401, message |-> "Invalid credentials.", token |-> NoToken ]
    ELSE [ status |-> 200, message |-> "",
           token |-> jwtSign(user.id, "normal", t) ]

\* POST /login from the SELECT on: the row with email.toLowerCase(), the
\* comparison with its hash, and the token signed at time t
login(us, body, t) ==
  LET found == { i \in 1..Len(us) : us[i].email = toLowerCase(body.email) } IN
  IF found = {}
    THEN [ status |-> 401, message |-> "Invalid credentials.", token |-> NoToken ]
  ELSE LET user == us[CHOOSE i \in found : TRUE] IN
    IF ~bcryptCompare(body.password, user.password)
      THEN [ status |-> 401, message |-> "Invalid credentials.", token |-> NoToken ]
    ELSE [ status |-> 200, message |-> "",
           token |-> jwtSign(user.id, user.user_role, t) ]

\* ratings.rating is an integer column: the parameter must read as an integer
ratingColumnAccepts(v) == IsInteger(v)

\* the row INSERT INTO ratings (store_id, user_id, rating) VALUES ($1, $2, $3) adds
ratingRow(rs, store_id, user_id, v, ts) ==
  [ id |-> Len(rs) + 1, store_id |-> store_id, user_id |-> user_id,
    rating |-> v.h \div 2,
    created_at |-> columnDefaults(ts).created_at,
    updated_at |-> columnDefaults(ts).updated_at ]

conflictRow(rs, store_id, user_id) ==
  { i \in 1..Len(rs) : rs[i].user_id = user_id /\ rs[i].store_id = store_id }

\* a faulty upsert: a plain INSERT, with no conflict target
upsertAlwaysInsert(rs, store_id, user_id, v, ts) ==
  Append(rs, ratingRow(rs, store_id, user_id, v, ts))

\* a faulty upsert: DO UPDATE also sets created_at
upsertResetsCreated(rs, store_id, user_id, v, ts) ==
  IF conflictRow(rs, store_id, user_id) = {}
    THEN Append(rs, ratingRow(rs, store_id, user_id, v, ts))
    ELSE [ i \in 1..Len(rs) |->
             IF i \in conflictRow(rs, store_id, user_id)
               THEN [ rs[i] EXCEPT !.rating = v.h \div 2, !.created_at = ts, !.updated_at = ts ]
               ELSE rs[i] ]

\* a faulty upsert: ON CONFLICT DO NOTHING
upsertDoNothing(rs, store_id, user_id, v, ts) ==
  IF conflictRow(rs, store_id, user_id) = {}
    THEN Append(rs, ratingRow(rs, store_id, user_id, v, ts))
    ELSE rs

\* INSERT INTO ratings ... ON CONFLICT (user_id, store_id)
\* DO UPDATE SET rating = EXCLUDED.rating, updated_at = NOW()
upsert(rs, store_id, user_id, v, ts) ==
  IF conflictRow(rs, store_id, user_id) = {}
    THEN Append(rs, ratingRow(rs, store_id, user_id, v, ts))
    ELSE [ i \in 1..Len(rs) |->
             IF i \in conflictRow(rs, store_id, user_id)
               THEN [ rs[i] EXCEPT !.rating = v.h \div 2, !.updated_at = ts ]
               ELSE rs[i] ]

\* a faulty handler: the rater taken from the body when it names one
ratingUserIdFromBody(r) == IF r.body.user_id # 0 THEN r.body.user_id ELSE r.token.id

\* const user_id = req.user.id: the rater is the caller the token names
ratingUserId(r) == r.token.id

\* the query of POST /ratings and its catch; ts is NOW()
upsertRating(rs, store_id, user_id, v, ts) ==
  IF ratingColumnAccepts(v)
    THEN Result(upsert(rs, store_id, user_id, v, ts), 200, "")
    ELSE Result(rs, 500, "Database insert/update failed")

---------------------------------------------------------------------------
(* The SELECTs of the GET routes.  A result without ORDER BY, and rows     *)
(* that compare equal under ORDER BY, come in any order.                   *)

DigitSeq == <<"0","1","2","3","4","5","6","7","8","9">>

\* the order of characters under the database's collation, for the
\* characters of the rows listed here: white space, digits, then letters
\* without regard to case
CollationSeq == <<" ">> \o DigitSeq \o LowerSeq

\* the place of each of these characters in that order
CollationRank ==
  [ ch \in { CollationSeq[i] : i \in 1..Len(CollationSeq) } |->
      CHOOSE i \in 1..Len(CollationSeq) : CollationSeq[i] = ch ]

Rank(ch) ==
  IF ToLowerChar(ch) \in DOMAIN CollationRank THEN CollationRank[ToLowerChar(ch)] ELSE 0

\* the sort key of a text value and of an integer or timestamp value
TextKey(s) == [ i \in 1..Len(s) |-> Rank(s[i]) ]
IntKey(n) == << n >>

RECURSIVE KeyLessEq(_, _)
KeyLessEq(a, b) ==
  IF a = <<>> THEN TRUE
  ELSE IF b = <<>> THEN FALSE
  ELSE IF Head(a) # Head(b) THEN Head(a) < Head(b)
  ELSE KeyLessEq(Tail(a), Tail(b))

\* the orders ORDER BY <key> <ord> may return the rows of DOMAIN keys in:
\* a row that no other row precedes comes first, then the rest
RECURSIVE OrderedFrom(_, _, _)
OrderedFrom(keys, ord, F) ==
  IF F = {} THEN { <<>> }
  ELSE LET first == { i \in F : \A j \in F :
                        IF ord = "DESC" THEN KeyLessEq(keys[j], keys[i])
                                        ELSE KeyLessEq(keys[i], keys[j]) }
       IN  UNION { { <<i>> \o p : p \in OrderedFrom(keys, ord, F \ {i}) } : i \in first }

Ordered(keys, ord) == OrderedFrom(keys, ord, DOMAIN keys)

\* the orders a SELECT without ORDER BY may return the rows of F in
Unordered(F) == Ordered([ i \in F |-> <<>> ], "ASC")

\* s LIKE p: % matches any run of characters, _ any one character
RECURSIVE Like(_, _)
Like(s, p) ==
  IF p = <<>> THEN s = <<>>
  ELSE IF Head(p) = "%" THEN Like(s, Tail(p)) \/ (s # <<>> /\ Like(Tail(s), p))
  ELSE IF s = <<>> THEN FALSE
  ELSE (Head(p) = "_" \/ Head(p) = Head(s)) /\ Like(Tail(s), Tail(p))

\* column ILIKE `%${v}%`
ILike(s, v) == Like(toLowerCase(s), <<"%">> \o toLowerCase(v) \o <<"%">>)

ColId == <<"i","d">>
ColName == <<"n","a","m","e">>
ColEmail == <<"e","m","a","i","l">>
ColAddress == <<"a","d","d","r","e","s","s">>
ColPassword == <<"p","a","s","s","w","o","r","d">>
ColUserRole == <<"u","s","e","r","_","r","o","l","e">>
ColOwnerId == <<"o","w","n","e","r","_","i","d">>
ColCreatedAt == <<"c","r","e","a","t","e","d","_","a","t">>

ALLOWED_USER_SORT == << ColId, ColName, ColEmail, ColAddress, ColUserRole, ColCreatedAt >>

ALLOWED_STORE_SORT == << ColId, ColName, ColAddress, ColOwnerId, ColCreatedAt >>

\* Array.prototype.includes
includes(list, x) == \E i \in 1..Len(list) : list[i] = x

\* a faulty choice: the value of sortBy as it was sent
sortColumnAsSent(allowed, sortBy) == IF sortBy = <<>> THEN ColId ELSE sortBy

\* a faulty choice: name is not let through
sortColumnWithoutName(allowed, sortBy) ==
  LET sBy == IF sortBy = <<>> THEN ColId ELSE sortBy IN
  IF includes(allowed, sBy) /\ sBy # ColName THEN sBy ELSE ColId

\* let sBy = String(sortBy || "id"); if (!ALLOWED.includes(sBy)) sBy = "id"
sortColumn(allowed, sortBy) ==
  LET sBy == IF sortBy = <<>> THEN ColId ELSE sortBy IN
  IF includes(allowed, sBy) THEN sBy ELSE ColId

\* String(order || "asc").toLowerCase() === "desc" ? "DESC" : "ASC"
sortOrder(order) ==
  IF toLowerCase(IF order = <<>> THEN <<"a","s","c">> ELSE order) = <<"d","e","s","c">>
    THEN "DESC" ELSE "ASC"

\* the text of a stored role
RoleText(role) ==
  IF role = "admin" THEN <<"a","d","m","i","n">>
  ELSE IF role = "store_owner" THEN <<"s","t","o","r","e","_","o","w","n","e","r">>
  ELSE <<"n","o","r","m","a","l">>

UserColumns == { ColId, ColName, ColEmail, ColAddress, ColPassword, ColUserRole, ColCreatedAt }

StoreColumns == { ColId, ColName, ColAddress, ColOwnerId, ColCreatedAt }

userKey(u, col) ==
  IF col = ColId THEN IntKey(u.id)
  ELSE IF col = ColName THEN TextKey(u.name)
  ELSE IF col = ColEmail THEN TextKey(u.email)
  ELSE IF col = ColAddress THEN TextKey(u.address)
  ELSE IF col = ColPassword THEN TextKey(u.password)
  ELSE IF col = ColUserRole THEN TextKey(RoleText(u.user_role))
  ELSE IntKey(u.created_at)

storeKey(s, col) ==
  IF col = ColId THEN IntKey(s.id)
  ELSE IF col = ColName THEN TextKey(s.name)
  ELSE IF col = ColAddress THEN TextKey(s.address)
  ELSE IF col = ColOwnerId THEN IntKey(s.owner_id)
  ELSE IntKey(s.created_at)

\* a response that carries no aggregate
NoStats == <<>>

\* what a GET handler answers: the status and the bodies the query may give
Answer(status, message, outcomes) ==
  [ status |-> status, message |-> message, outcomes |-> outcomes ]

ResponseBody(rows, stats) == [ rows |-> rows, stats |-> stats ]

\* result.rows.map(u => ({ ...u, role: u.user_role })) over the columns
\* id, name, email, address, user_role
userJson(u) ==
  [ id |-> u.id, name |-> u.name, email |-> u.email, address |-> u.address,
    user_role |-> u.user_role, role |-> u.user_role ]

\* GET /users: the filters, ORDER BY ${sBy} ${ord}, and the catch
listUsers(us, q) ==
  LET sBy == sortColumn(ALLOWED_USER_SORT, q.sortBy)
      ord == sortOrder(q.order)
      kept == { i \in 1..Len(us) :
                  /\ q.name = <<>> \/ ILike(us[i].name, q.name)
                  /\ q.email = <<>> \/ ILike(us[i].email, q.email)
                  /\ q.address = <<>> \/ ILike(us[i].address, q.address)
                  /\ q.role = <<>> \/ RoleText(us[i].user_role) = q.role }
  IN  IF sBy \notin UserColumns
        THEN Answer(500, "Server error", { ResponseBody(<<>>, NoStats) })
        ELSE Answer(200, "",
               { ResponseBody([ k \in DOMAIN p |-> userJson(us[p[k]]) ], NoStats) :
                   p \in Ordered([ i \in kept |-> userKey(us[i], sBy) ], ord) })

\* GET /stores: the filters, ORDER BY ${sBy} ${ord}, and the catch
listStores(ss, q) ==
  LET sBy == sortColumn(ALLOWED_STORE_SORT, q.sortBy)
      ord == sortOrder(q.order)
      kept == { i \in 1..Len(ss) :
                  /\ q.name = <<>> \/ ILike(ss[i].name, q.name)
                  /\ q.address = <<>> \/ ILike(ss[i].address, q.address)
                  /\ q.owner_id = 0 \/ ss[i].owner_id = q.owner_id }
  IN  IF sBy \notin StoreColumns
        THEN Answer(500, "Server error", { ResponseBody(<<>>, NoStats) })
        ELSE Answer(200, "",
               { ResponseBody([ k \in DOMAIN p |-> ss[p[k]] ], NoStats) :
                   p \in Ordered([ i \in kept |-> storeKey(ss[i], sBy) ], ord) })

RECURSIVE SumRatings(_, _)
SumRatings(rs, F) ==
  IF F = {} THEN 0
  ELSE LET i == CHOOSE i \in F : TRUE IN rs[i].rating + SumRatings(rs, F \ {i})

\* a numeric(10,2) value; h holds it in hundredths
Numeric(h) == [ t |-> "numeric", h |-> h ]

\* a faulty aggregate: the quotient cut, not rounded
avgRatingTruncated(rs, F) ==
  IF F = {} THEN Null
  ELSE Numeric((100 * SumRatings(rs, F)) \div Cardinality(F))

\* AVG(rating)::numeric(10,2) over the rows F: null over no row, and the
\* quotient rounded to two places, a half away from zero
avgRating(rs, F) ==
  IF F = {} THEN Null
  ELSE Numeric((200 * SumRatings(rs, F) + Cardinality(F)) \div (2 * Cardinality(F)))

\* SELECT AVG(rating)::numeric(10,2) AS avg_rating, COUNT(*) AS total_ratings
\* FROM ratings WHERE store_id = $1
storeStats(rs, store_id) ==
  LET F == { i \in 1..Len(rs) : rs[i].store_id = store_id } IN
  [ avg_rating |-> avgRating(rs, F), total_ratings |-> Cardinality(F) ]

\* GET /stores/:id/average-rating
averageRating(rs, id) == Answer(200, "", { ResponseBody(<<>>, << storeStats(rs, id) >>) })

\* GET /ratings/:store_id: the ratings joined with their users, and the stats
storeRatings(us, rs, store_id) ==
  LET J == { i \in 1..Len(rs) :
               rs[i].store_id = store_id /\ \E u \in 1..Len(us) : us[u].id = rs[i].user_id }
      userOf(i) == us[CHOOSE u \in 1..Len(us) : us[u].id = rs[i].user_id]
      row(i) == [ id |-> rs[i].id, store_id |-> rs[i].store_id, user_id |-> rs[i].user_id,
                  rating |-> rs[i].rating, created_at |-> rs[i].created_at,
                  updated_at |-> rs[i].updated_at, user_name |-> userOf(i).name ]
  IN  Answer(200, "",
        { ResponseBody([ k \in DOMAIN p |-> row(p[k]) ], << storeStats(rs, store_id) >>) :
            p \in Unordered(J) })

\* GET /owner/:id/ratings from the first query on: the ratings of the
\* owner's stores with their raters, and the average of each store name
ownerRatings(us, ss, rs, id) ==
  LET owned == { k \in 1..Len(ss) : ss[k].owner_id = id }
      storeOf(i) == { k \in owned : ss[k].id = rs[i].store_id }
      J == { i \in 1..Len(rs) :
               storeOf(i) # {} /\ \E u \in 1..Len(us) : us[u].id = rs[i].user_id }
      userOf(i) == us[CHOOSE u \in 1..Len(us) : us[u].id = rs[i].user_id]
      row(i) == [ name |-> userOf(i).name, email |-> userOf(i).email,
                  rating |-> rs[i].rating, created_at |-> rs[i].created_at,
                  store_name |-> ss[CHOOSE k \in storeOf(i) : TRUE].name ]
      first(k) == \A j \in owned : ss[j].name = ss[k].name => k <= j
      groups == { k \in owned : first(k) }
      rated(k) == { i \in 1..Len(rs) :
                      \E j \in owned : ss[j].name = ss[k].name /\ rs[i].store_id = ss[j].id }
      average(k) == [ store_name |-> ss[k].name, avg_rating |-> avgRating(rs, rated(k)) ]
  IN  Answer(200, "",
        { ResponseBody([ k \in DOMAIN p |-> row(p[k]) ], [ k \in DOMAIN g |-> average(g[k]) ]) :
            p \in Unordered(J), g \in Unordered(groups) })

\* GET /admin/dashboard: the three counts
dashboard(us, ss, rs) ==
  Answer(200, "",
    { ResponseBody(<<>>, << [ totalUsers |-> Len(us), totalStores |-> Len(ss),
                          totalRatings |-> Len(rs) ] >>) })

ReadRoutes ==
  { DashboardRoute, ListUsersRoute, ListStoresRoute, OwnerRoute,
    StoreRatingsRoute, AverageRoute }

\* the handler of a GET route from its first query on
read(r, us, ss, rs) ==
  IF r.route = DashboardRoute THEN dashboard(us, ss, rs)
  ELSE IF r.route = ListUsersRoute THEN listUsers(us, r.body)
  ELSE IF r.route = ListStoresRoute THEN listStores(ss, r.body)
  ELSE IF r.route = OwnerRoute THEN ownerRatings(us, ss, rs, r.body.id)
  ELSE IF r.route = StoreRatingsRoute THEN storeRatings(us, rs, r.body.store_id)
  ELSE averageRating(rs, r.body.id)

---------------------------------------------------------------------------
(* Requests in flight.  Each caller has at most one request outstanding;   *)
(* a request is handled up to its first await when it arrives (Receive)    *)
(* and its statement is executed by the store later (Complete...), so the  *)
(* statements of two callers interleave in either order.                   *)

Callers == 1..2

\* the clock when the system is first observed; tokens signed at 0 have
\* expired by then
Epoch == ExpiresIn

Idle ==
  [ pc |-> "idle", at |-> 0, route |-> "", token |-> NoToken, body |-> NoBody,
    status |-> 0, message |-> "", ran |-> FALSE, issued |-> NoToken,
    rows |-> <<>>, stats |-> NoStats ]

NoProbe == [ roles |-> <<>>, role |-> "", out |-> -1 ]

\* the requests received so far: the clock moves by one with each request
\* and by elapsed while none arrives
Sent == now - Epoch - elapsed

\* A request arrives: the middleware and the handler run to the first await.
Receive(c, r) ==
  /\ req[c].pc # "pending"
  /\ Sent < MaxSends
  /\ now' = now + 1
  /\ LET d == dispatch(r, now') IN
       req' = [ req EXCEPT ![c] =
                  [ pc |-> IF d.ok THEN "pending" ELSE "done",
                    at |-> now', route |-> r.route, token |-> r.token, body |-> r.body,
                    status |-> d.status, message |-> d.message, ran |-> d.ran,
                    issued |-> NoToken, rows |-> <<>>, stats |-> NoStats ] ]
  /\ UNCHANGED <<users, stores, ratings, probe, localStorage, elapsed>>

Respond(c, status, message) ==
  req' = [ req EXCEPT ![c].pc = "done", ![c].status = status, ![c].message = message ]

\* POST /signup and POST /users after the hash: the INSERT and the response
CompleteUser(c) ==
  /\ req[c].pc = "pending"
  /\ req[c].route \in { SignupRoute, AddUserRoute }
  /\ LET res == insertUser(users, req[c].body, req[c].at) IN
       /\ users' = res.table
       /\ Respond(c, res.status, res.message)
  /\ UNCHANGED <<stores, ratings, now, probe, localStorage, elapsed>>

\* POST /stores: the INSERT and the response
CompleteStore(c) ==
  /\ req[c].pc = "pending"
  /\ req[c].route = AddStoreRoute
  /\ LET known == \E i \in 1..Len(users) : users[i].id = req[c].body.owner_id
         res == IF ownerReferenceEnforced /\ ~known
                  THEN Result(stores, 500, "Server error.")
                  ELSE insertStore(stores, req[c].body, req[c].at)
     IN
       /\ stores' = res.table
       /\ Respond(c, res.status, res.message)
  /\ UNCHANGED <<users, ratings, now, probe, localStorage, elapsed>>

\* POST /ratings: the upsert and the response
CompleteRating(c) ==
  /\ req[c].pc = "pending"
  /\ req[c].route = RatingRoute
  /\ LET res == upsertRating(ratings, req[c].body.store_id, ratingUserId(req[c]),
                             req[c].body.rating, req[c].at) IN
       /\ ratings' = res.table
       /\ Respond(c, res.status, res.message)
  /\ UNCHANGED <<users, stores, now, probe, localStorage, elapsed>>

\* PUT /users/:id/password after the hash: the UPDATE and the response
CompletePassword(c) ==
  /\ req[c].pc = "pending"
  /\ req[c].route = PasswordRoute
  /\ LET res == updatePassword(users, req[c].body) IN
       /\ users' = res.table
       /\ Respond(c, res.status, res.message)
  /\ UNCHANGED <<stores, ratings, now, probe, localStorage, elapsed>>

\* POST /login: the SELECT, the comparison, the token and the response
CompleteLogin(c) ==
  /\ req[c].pc = "pending"
  /\ req[c].route = LoginRoute
  /\ LET res == login(users, req[c].body, now) IN
       req' = [ req EXCEPT ![c].pc = "done", ![c].status = res.status,
                           ![c].message = res.message, ![c].issued = res.token ]
  /\ UNCHANGED <<users, stores, ratings, now, probe, localStorage, elapsed>>

\* the GET routes: the SELECTs of the handler, taken together, and the
\* response
CompleteRead(c) ==
  /\ req[c].pc = "pending"
  /\ req[c].route \in ReadRoutes
  /\ LET res == read(req[c], users, stores, ratings) IN
       \E out \in res.outcomes :
         req' = [ req EXCEPT ![c].pc = "done", ![c].status = res.status,
                             ![c].message = res.message,
                             ![c].rows = out.rows, ![c].stats = out.stats ]
  /\ UNCHANGED <<users, stores, ratings, now, probe, localStorage, elapsed>>

---------------------------------------------------------------------------
(* The client (services/mockApi.ts): each caller's localStorage holds the  *)
(* item 'token'; NoToken stands for no item.                               *)

\* the string "undefined", which is no token
UndefinedString == [ sig |-> "malformed", id |-> 0, role |-> "", iat |-> 0, exp |-> 0 ]

\* localStorage.setItem('token', data.token): a value that is undefined is
\* stored as the string "undefined"
setItem(token) == IF token = NoToken THEN UndefinedString ELSE token

\* getAuthHeaders(): Authorization: Bearer <item>, or no header with no item
getAuthHeaders(c) == localStorage[c]

\* res.ok
ResOk(status) == status \in 200..299

\* authApi.login up to its fetch
ClientLogin(c, credentials) ==
  /\ req[c].pc \in { "idle", "settled" }
  /\ Receive(c, Request(LoginRoute, NoToken, credentials))

\* authApi.signup up to its fetch
ClientSignup(c, userData) ==
  /\ req[c].pc \in { "idle", "settled" }
  /\ Receive(c, Request(SignupRoute, NoToken, userData))

\* a call of the client that sends getAuthHeaders(), up to its fetch
ClientFetch(c, route, body) ==
  /\ req[c].pc \in { "idle", "settled" }
  /\ Receive(c, Request(route, getAuthHeaders(c), body))

\* the client's call resumes with the response: authApi.login and
\* authApi.signup throw unless res.ok and store data.token otherwise; the
\* other calls store nothing
ClientSettle(c) ==
  /\ req[c].pc = "done"
  /\ req' = [ req EXCEPT ![c].pc = "settled" ]
  /\ localStorage' =
       IF req[c].route \in { LoginRoute, SignupRoute } /\ ResOk(req[c].status)
         THEN [ localStorage EXCEPT ![c] = setItem(req[c].issued) ]
         ELSE localStorage
  /\ UNCHANGED <<users, stores, ratings, now, probe, elapsed>>

\* the class [!@#$%^&*(),.?":{}|<>] of the profile page's form
FormSpecialChars ==
  { "!","@","#","$","%","^","&","*","(",")",",",".","?","\"",":","{","}","|","<",">" }

PasswordForm(currentPassword, newPassword, confirmPassword) ==
  [ currentPassword |-> currentPassword, newPassword |-> newPassword,
    confirmPassword |-> confirmPassword ]

\* validatePasswordForm(): no error was found
validatePasswordForm(passwordData) ==
  /\ passwordData.currentPassword # <<>>
  /\ passwordData.newPassword # <<>>
  /\ Len(passwordData.newPassword) >= PasswordMin
  /\ Len(passwordData.newPassword) <= PasswordMax
  /\ \E i \in 1..Len(passwordData.newPassword) : passwordData.newPassword[i] \in UpperChars
  /\ \E i \in 1..Len(passwordData.newPassword) :
        passwordData.newPassword[i] \in FormSpecialChars
  /\ passwordData.newPassword = passwordData.confirmPassword

\* the pages behind a login are shown to a caller whose login succeeded
loggedIn(c) == localStorage[c].sig = "valid"

\* the object handlePasswordChange passes to authApi.changePassword: it has
\* currentPassword and newPassword and no userId
changePasswordData(passwordData) ==
  [ userId |-> UndefinedId, currentPassword |-> passwordData.currentPassword,
    newPassword |-> passwordData.newPassword ]

\* authApi.changePassword up to its fetch:
\* PUT /users/${data.userId}/password with { password: data.newPassword }
changePassword(c, data) ==
  Receive(c, Request(PasswordRoute, getAuthHeaders(c),
                     PasswordBody(data.userId, data.newPassword)))

\* handlePasswordChange up to the fetch of authApi.changePassword
ClientChangePassword(c, passwordData) ==
  /\ req[c].pc \in { "idle", "settled" }
  /\ loggedIn(c)
  /\ validatePasswordForm(passwordData)
  /\ changePassword(c, changePasswordData(passwordData))

UserForm(name, email, address, role) ==
  [ name |-> name, email |-> email, address |-> address, role |-> role ]

\* /\S+@\S+\.\S+/.test(e)
formEmailRegex(e) ==
  \E i \in 2..Len(e), j \in 3..Len(e) :
    /\ e[i] = "@"
    /\ e[j] = "."
    /\ i + 1 < j
    /\ j < Len(e)
    /\ e[i - 1] \notin WhiteSpace
    /\ e[j + 1] \notin WhiteSpace
    /\ \A k \in (i + 1)..(j - 1) : e[k] \notin WhiteSpace

\* validateForm() of AddUserForm: no error was found
validateUserForm(formData) ==
  /\ formData.name # <<>>
  /\ Len(formData.name) >= NameMin
  /\ Len(formData.name) <= NameMax
  /\ formData.email # <<>>
  /\ formEmailRegex(formData.email)
  /\ formData.address # <<>>
  /\ Len(formData.address) <= AddressMax
  /\ formData.role # <<>>

\* adminApi.addUser up to its fetch: the body is JSON.stringify(userData),
\* which has the keys of the form and no password
addUser(c, userData) ==
  Receive(c, Request(AddUserRoute, getAuthHeaders(c),
                     [ NoBody EXCEPT !.name = userData.name, !.email = userData.email,
                                     !.address = userData.address, !.role = userData.role ]))

\* handleSubmit of AddUserForm up to the fetch of adminApi.addUser
ClientAddUser(c, formData) ==
  /\ req[c].pc \in { "idle", "settled" }
  /\ loggedIn(c)
  /\ validateUserForm(formData)
  /\ addUser(c, formData)

StoreForm(name, email, address, ownerId) ==
  [ name |-> name, email |-> email, address |-> address, ownerId |-> ownerId ]

\* validateForm() of AddStoreForm: no error was found
validateStoreForm(formData) ==
  /\ formData.name # <<>>
  /\ formData.email # <<>>
  /\ formEmailRegex(formData.email)
  /\ formData.address # <<>>
  /\ formData.ownerId # 0

\* storeApi.addStore up to its fetch: the body is JSON.stringify(store),
\* which has the keys of the form: name, email, address and ownerId
addStore(c, store) ==
  Receive(c, Request(AddStoreRoute, getAuthHeaders(c),
                     [ NoBody EXCEPT !.name = store.name, !.email = store.email,
                                     !.address = store.address, !.ownerId = store.ownerId ]))

\* handleSubmit of AddStoreForm up to the fetch of storeApi.addStore
ClientAddStore(c, formData) ==
  /\ req[c].pc \in { "idle", "settled" }
  /\ loggedIn(c)
  /\ validateStoreForm(formData)
  /\ addStore(c, formData)

\* the waits after which the next request is sent: up to the last second of
\* a token signed just before, and past it
Delays == { ExpiresIn - 2, ExpiresIn - 1 }

\* time passes while no request arrives (once in a behaviour)
Elapse(d) ==
  /\ elapsed = 0
  /\ \A c \in Callers : req[c].pc # "pending"
  /\ now' = now + d
  /\ elapsed' = elapsed + d
  /\ UNCHANGED <<users, stores, ratings, req, probe, localStorage>>

---------------------------------------------------------------------------
(* Inputs.                                                                 *)

\* "Abcdef1!"
GoodPassword == <<"A","b","c","d","e","f","1","!">>

ShortAddress == <<"1"," ","R","d">>

Email(local) == <<local, "@", "s", ".", "i", "o">>

\* the users and stores already there when a behaviour starts, as the
\* signups and the admin's POST /stores leave them
SeedBodies ==
  << UserBody(Rep("a", NameMin), Email("a"), GoodPassword, ShortAddress, <<"a","d","m","i","n">>),
     UserBody(Rep("o", NameMin), Email("o"), GoodPassword, ShortAddress, <<"o","w","n","e","r">>),
     UserBody(Rep("n", NameMin), Email("n"), GoodPassword, ShortAddress, <<>>),
     UserBody(Rep("m", NameMin), Email("m"), GoodPassword, ShortAddress, <<>>) >>

RECURSIVE SeedUsers(_, _)
SeedUsers(bodies, us) ==
  IF bodies = <<>> THEN us
  ELSE SeedUsers(Tail(bodies), insertUser(us, Head(bodies), Len(us)).table)

SeededUsers == SeedUsers(SeedBodies, <<>>)

\* the id the INSERT returned for the seeded user with this email
IdOf(email) ==
  SeededUsers[CHOOSE i \in 1..Len(SeededUsers) : SeededUsers[i].email = email].id

AdminId == IdOf(Email("a"))
OwnerId == IdOf(Email("o"))
RaterId == IdOf(Email("n"))
OtherRaterId == IdOf(Email("m"))

SeededStores ==
  insertStore(insertStore(<<>>, StoreBody(<<"S","1">>, ShortAddress, OwnerId),
                          Len(SeededUsers)).table,
              StoreBody(<<"S","2">>, ShortAddress, OwnerId), Len(SeededUsers) + 1).table

\* the token login gave user id at time t
TokenOf(id, t) == jwtSign(SeededUsers[id].id, SeededUsers[id].user_role, t)

InitSeeded ==
  /\ users = SeededUsers
  /\ stores = SeededStores
  /\ ratings = <<>>
  /\ now = Epoch
  /\ req = [ c \in Callers |-> Idle ]
  /\ probe = NoProbe
  /\ localStorage = [ c \in Callers |-> NoToken ]
  /\ elapsed = 0

---------------------------------------------------------------------------
(* SpecRating: two callers submit ratings concurrently.                    *)

RaterTokens == { TokenOf(RaterId, Epoch), TokenOf(OwnerId, Epoch) }

RatingRequests ==
  { Request(RatingRoute, t, RatingBody(s, Num(2 * v))) :
      t \in RaterTokens, s \in {1, 2}, v \in {2, 4} }

NextRating ==
  \E c \in Callers :
    \/ \E r \in RatingRequests : Receive(c, r)
    \/ CompleteRating(c)

SpecRating == InitSeeded /\ [][NextRating]_vars

(* SpecRatingSeq: one caller submits ratings one after the other, with     *)
(* every kind of rating value and store id.                                *)

RatingValues ==
  { Null, NotANumber, Num(-2), Num(0), Num(2), Num(5), Num(10), Num(12) }

RatingSeqRequests ==
  { Request(RatingRoute, t, RatingBody(s, v)) :
      t \in RaterTokens, s \in {0, 1, 2}, v \in RatingValues }

NextRatingSeq ==
  \/ \E r \in RatingSeqRequests : Receive(1, r)
  \/ CompleteRating(1)

SpecRatingSeq == InitSeeded /\ [][NextRatingSeq]_vars

---------------------------------------------------------------------------
(* Claims about the rating upsert.                                         *)

RowsOf(rs, u, s) == { i \in 1..Len(rs) : rs[i].user_id = u /\ rs[i].store_id = s }

\* caller c's POST /ratings statement is executed in this step and answers 200
RatingApplied(c) ==
  /\ req[c].pc = "pending"
  /\ req[c].route = RatingRoute
  /\ req'[c].pc = "done"
  /\ req'[c].status = 200

\* caller c's request arrives in this step
Arrives(c) == req'[c].at # req[c].at

\* C1: after any sequence and interleaving of POST /ratings submissions the
\* ratings table holds at most one row per (user_id, store_id) pair.
C1_OneRowPerPair ==
  \A i, j \in 1..Len(ratings) :
    (ratings[i].user_id = ratings[j].user_id /\ ratings[i].store_id = ratings[j].store_id)
      => i = j

\* a pair was submitted again (its row was overwritten) while another pair
\* has a row of its own
C1_Witness ==
  /\ Len(ratings) >= 2
  /\ \E i \in 1..Len(ratings) : ratings[i].updated_at # ratings[i].created_at
  /\ \A c \in Callers : req[c].pc = "done" /\ req[c].status = 200

\* C2: the first submission for a pair inserts one row with created_at =
\* updated_at; a later submission for the pair leaves exactly one row for it,
\* with the new value, the same created_at and a later updated_at; the rows
\* of every other pair are unchanged.
C2_UpsertSemantics ==
  [][ \A c \in Callers :
        RatingApplied(c) =>
          LET u == req[c].token.id
              s == req[c].body.store_id
              v == req[c].body.rating.h \div 2
              old == RowsOf(ratings, u, s)
              new == RowsOf(ratings', u, s)
          IN  /\ Cardinality(new) = 1
              /\ \A i \in new : ratings'[i].rating = v
              /\ \A j \in (1..Len(ratings)) \ old : ratings'[j] = ratings[j]
              /\ IF old = {}
                   THEN /\ Len(ratings') = Len(ratings) + 1
                        /\ \A i \in new : ratings'[i].created_at = ratings'[i].updated_at
                   ELSE /\ Len(ratings') = Len(ratings)
                        /\ new = old
                        /\ \A i \in new :
                             /\ ratings'[i].created_at = ratings[i].created_at
                             /\ ratings'[i].updated_at > ratings[i].updated_at
                             /\ ratings'[i].id = ratings[i].id ]_vars

\* value 5 then value 1 for the same pair: one row for it, value 1, updated
\* after it was created, beside the untouched row of another pair
C2_Witness ==
  /\ req[1].pc = "done" /\ req[1].status = 200 /\ req[1].route = RatingRoute
  /\ req[1].body.rating = Num(2)
  /\ \E i \in RowsOf(ratings, req[1].token.id, req[1].body.store_id) :
       /\ ratings[i].rating = 1
       /\ ratings[i].updated_at > ratings[i].created_at
  /\ \E j \in 1..Len(ratings) :
       /\ ratings[j].user_id # req[1].token.id
       /\ ratings[j].updated_at = ratings[j].created_at

\* C3: when two callers with tokens of the same user submit values for the
\* same store concurrently, whichever statement is executed leaves exactly
\* one row for the pair holding that statement's value, so the row ends with
\* the value applied last; nothing else changes the ratings table.
C3_LastAppliedWins ==
  [][ /\ \A c \in Callers :
           RatingApplied(c) =>
             LET new == RowsOf(ratings', req[c].token.id, req[c].body.store_id) IN
               /\ Cardinality(new) = 1
               /\ \A i \in new : ratings'[i].rating = req[c].body.rating.h \div 2
      /\ ratings' # ratings => \E c \in Callers : RatingApplied(c) ]_vars

\* both callers held the same user's token and rated the same store with
\* different values while the other's request was in flight: the request
\* that arrived first was applied last, and its value is the row's
C3_Witness ==
  /\ \A c \in Callers : req[c].pc = "done" /\ req[c].status = 200
  /\ req[1].token = req[2].token
  /\ req[1].body.store_id = req[2].body.store_id
  /\ req[1].body.rating # req[2].body.rating
  /\ req[1].at < req[2].at
  /\ Cardinality(RowsOf(ratings, req[1].token.id, req[1].body.store_id)) = 1
  /\ \A i \in RowsOf(ratings, req[1].token.id, req[1].body.store_id) :
       /\ ratings[i].updated_at = req[1].at
       /\ ratings[i].created_at = req[2].at
       /\ ratings[i].rating = req[1].body.rating.h \div 2

\* the claim's cases: the store id or the rating missing, or a value below
\* 1 or above 5
OutOfRange(body) ==
  \/ body.store_id = 0
  \/ body.rating.t = "null"
  \/ body.rating.t = "num" /\ (body.rating.h < 2 \/ body.rating.h > 10)

\* C4: a submission by an authenticated caller whose store id or rating is
\* missing, or whose value is below 1 or above 5, is answered 400 and writes
\* nothing.
C4_InvalidRatingRejected ==
  [][ \A c \in Callers :
        ( /\ Arrives(c)
          /\ req'[c].route = RatingRoute
          /\ req'[c].ran
          /\ OutOfRange(req'[c].body) )
        => /\ req'[c].pc = "done"
           /\ req'[c].status = 400
           /\ ratings' = ratings ]_vars

\* a value of 0 or 6 was refused for a pair that already has a row, which
\* keeps its value and its timestamps
C4_Witness ==
  /\ req[1].pc = "done" /\ req[1].status = 400 /\ req[1].route = RatingRoute
  /\ req[1].body.rating \in { Num(0), Num(12) }
  /\ \E i \in RowsOf(ratings, req[1].token.id, req[1].body.store_id) :
       /\ ratings[i].rating = 5
       /\ ratings[i].updated_at = ratings[i].created_at
       /\ ratings[i].updated_at < req[1].at

\* C5 (the claim as stated): a value inside 1..5 that is not an integer is
\* answered 400, and every persisted rating is an integer in 1..5.
C5_NonIntegerRejected ==
  /\ \A c \in Callers :
       ( /\ req[c].pc = "done"
         /\ req[c].route = RatingRoute
         /\ req[c].ran
         /\ req[c].body.store_id # 0
         /\ req[c].body.rating.t = "num"
         /\ req[c].body.rating.h \in 2..10
         /\ req[c].body.rating.h % 2 = 1 )
       => req[c].status = 400
  /\ \A i \in 1..Len(ratings) : ratings[i].rating \in 1..5

---------------------------------------------------------------------------
(* SpecGate: authorizeRoles applied to every declared role list and role.  *)

RoleLists == UNION { [ 1..n -> Roles ] : n \in 0..MaxRoles }

InitGate ==
  /\ users = SeededUsers
  /\ stores = SeededStores
  /\ ratings = <<>>
  /\ now = Epoch
  /\ req = [ c \in Callers |-> Idle ]
  /\ probe \in [ roles : RoleLists, role : Roles \cup {""}, out : {-1} ]
  /\ localStorage = [ c \in Callers |-> NoToken ]
  /\ elapsed = 0

\* the middleware authorizeRoles(...probe.roles) runs for req.user.role =
\* probe.role; out is 0 for next() and the status otherwise
ApplyGate ==
  /\ probe.out = -1
  /\ probe' = [ probe EXCEPT !.out = authorizeRoles(probe.roles, probe.role).status ]
  /\ UNCHANGED <<users, stores, ratings, now, req, localStorage, elapsed>>

NextGate == ApplyGate

SpecGate == InitGate /\ [][NextGate]_vars

\* C6: authorizeRoles(required...) lets a request through if and only if
\* the token's role is admin or is a member of the declared roles, for
\* every role and every declared list, and answers 403 otherwise.
C6_AdminOrListed ==
  (probe.out # -1 /\ probe.role \in Roles) =>
    LET allowed == probe.role = "admin" \/ \E i \in 1..Len(probe.roles) : probe.roles[i] = probe.role
    IN  /\ (probe.out = 0) <=> allowed
        /\ ~allowed => probe.out = 403

\* admin passed a gate whose declared roles do not contain admin
C6_Witness ==
  /\ probe.out = 0
  /\ probe.role = "admin"
  /\ probe.roles # <<>>
  /\ \A i \in 1..Len(probe.roles) : probe.roles[i] # "admin"

---------------------------------------------------------------------------
(* SpecRoutes: every route registered with authenticateToken, called with  *)
(* no token, a forged token, an expired token and the tokens of the three  *)
(* roles.                                                                  *)

RouteTokens ==
  { NoToken, Forged(AdminId, "admin", Epoch), TokenOf(AdminId, 0),
    TokenOf(AdminId, Epoch), TokenOf(OwnerId, Epoch), TokenOf(RaterId, Epoch) }

\* "Newpass9?"
NewPassword == <<"N","e","w","p","a","s","s","9","?">>

RouteBody(route) ==
  IF route = AddUserRoute
    THEN UserBody(Rep("u", NameMin), Email("u"), GoodPassword, ShortAddress, <<>>)
  ELSE IF route = AddStoreRoute THEN StoreBody(<<"S","3">>, ShortAddress, OwnerId)
  ELSE IF route = PasswordRoute THEN PasswordBody(RaterId, NewPassword)
  ELSE IF route = RatingRoute THEN RatingBody(1, Num(6))
  ELSE IF route = OwnerRoute THEN OwnerParams(OwnerId)
  ELSE NoBody

RouteRequests == { Request(route, t, RouteBody(route)) : route \in BearerRoutes, t \in RouteTokens }

NextRoutes ==
  \/ \E r \in RouteRequests : Receive(1, r)
  \/ CompleteUser(1)
  \/ CompleteStore(1)
  \/ CompleteRating(1)
  \/ CompletePassword(1)
  \/ CompleteRead(1)

SpecRoutes == InitSeeded /\ [][NextRoutes]_vars

\* the token was signed by the server and has not expired at time t
GoodToken(token, t) == token.sig = "valid" /\ token.exp > t

Unauthenticated == { <<401, "No token provided">>, <<403, "Invalid token">> }

Forbidden == <<403, "Access denied">>

Outcome(r) == <<r.status, r.message>>

\* C7: on every route registered with authenticateToken a request with no
\* token, an invalid token or an expired token gets an Unauthenticated
\* outcome, a request with a valid token whose role is insufficient gets the
\* Forbidden outcome, the two outcomes differ, and in neither case is the
\* handler entered.
C7_UnauthenticatedVsForbidden ==
  \A c \in Callers :
    (req[c].pc # "idle" /\ req[c].route \in BearerRoutes) =>
      /\ ~GoodToken(req[c].token, req[c].at) =>
           /\ req[c].pc = "done"
           /\ ~req[c].ran
           /\ Outcome(req[c]) \in Unauthenticated
           /\ Outcome(req[c]) # Forbidden
           /\ (req[c].token.sig = "none") <=> (req[c].status = 401)
      /\ ( /\ GoodToken(req[c].token, req[c].at)
           /\ req[c].route \in GatedRoutes
           /\ req[c].token.role # "admin"
           /\ \A i \in 1..Len(DeclaredRoles(req[c].route)) :
                DeclaredRoles(req[c].route)[i] # req[c].token.role ) =>
           /\ req[c].pc = "done"
           /\ ~req[c].ran
           /\ Outcome(req[c]) = Forbidden

\* after the admin added a store, a request for the same route with the
\* admin's expired token was refused as unauthenticated, by an outcome that
\* is not the Forbidden one, and no further store was written
C7_Witness ==
  /\ req[1].pc = "done"
  /\ req[1].route = AddStoreRoute
  /\ req[1].token = TokenOf(AdminId, 0)
  /\ Outcome(req[1]) = <<403, "Invalid token">>
  /\ ~req[1].ran
  /\ Len(stores) = Len(SeededStores) + 1

---------------------------------------------------------------------------
(* SpecSignupSeq: one caller signs up, or the admin adds a user, with       *)
(* names, addresses, passwords and emails on both sides of every rule.     *)

\* trimmed length n, raw length n + 2
Padded(ch, n) == <<" ">> \o Rep(ch, n) \o <<" ">>

SignupNames ==
  { <<>>, Padded("u", NameMin - 1), Padded("u", NameMin), Padded("u", NameMax),
    Padded("u", NameMax + 1) }

SignupAddresses == { Rep("d", AddressMax), Rep("d", AddressMax) \o <<" ">> }

SignupPasswords ==
  { GoodPassword,
    <<"A","b","c","d","e","1","!">>,
    <<"A","!">> \o Rep("p", PasswordMax - 2),
    <<"A","!">> \o Rep("p", PasswordMax - 1),
    <<"a","b","c","d","e","f","1","!">>,
    <<"A","b","c","d","e","f","g","1">>,
    <<"A","b","c","d","e","f","1","!","\n">> }

SignupEmails == { Email("u"), <<"u","@","s","i","o">> }

SignupBodies ==
  { UserBody(n, Email("u"), p, a, <<>>) :
      n \in SignupNames, p \in SignupPasswords, a \in SignupAddresses }
  \cup { UserBody(Padded("u", NameMin), e, GoodPassword, Rep("d", AddressMax), <<>>) :
           e \in SignupEmails }

SignupSeqRequests ==
  { Request(route, IF route = SignupRoute THEN NoToken ELSE TokenOf(AdminId, Epoch), b) :
      route \in { SignupRoute, AddUserRoute }, b \in SignupBodies }

NextSignupSeq ==
  \/ \E r \in SignupSeqRequests : Receive(1, r)
  \/ CompleteUser(1)

SpecSignupSeq == InitSeeded /\ [][NextSignupSeq]_vars

\* the claim's rule on (name, address, password)
HasUpper(p) == \E i \in 1..Len(p) : p[i] \in UpperChars

HasSpecial(p) == \E i \in 1..Len(p) : p[i] \in SpecialChars

ViolatesRules(body) ==
  \/ Len(trim(body.name)) < 20
  \/ Len(trim(body.name)) > 60
  \/ Len(body.address) > 400
  \/ Len(body.password) < 8
  \/ Len(body.password) > 16
  \/ ~HasUpper(body.password)
  \/ ~HasSpecial(body.password)

\* C8: a POST /signup, or a POST /users by the admin, whose name is not 20
\* to 60 characters after trimming, whose address is longer than 400
\* characters or whose password is not 8 to 16 characters with an uppercase
\* letter and a special character is answered 400, sends no statement and
\* leaves the users table unchanged.
C8_InvalidSignupRejected ==
  [][ \A c \in Callers :
        ( /\ Arrives(c)
          /\ \/ req'[c].route = SignupRoute
             \/ /\ req'[c].route = AddUserRoute
                /\ GoodToken(req'[c].token, req'[c].at)
                /\ req'[c].token.role = "admin"
          /\ ViolatesRules(req'[c].body) )
        => /\ req'[c].pc = "done"
           /\ req'[c].status = 400
           /\ ~req'[c].ran
           /\ users' = users ]_vars

\* after a user was added, a name of 19 characters between two blanks (21
\* with them) was refused with every other field valid
C8_Witness ==
  /\ req[1].pc = "done"
  /\ req[1].status = 400
  /\ req[1].message = "Name must be between 20 and 60 characters."
  /\ Len(req[1].body.name) > 20
  /\ Len(trim(req[1].body.name)) = 19
  /\ req[1].body.password = GoodPassword
  /\ Len(req[1].body.address) = 400
  /\ Len(users) = Len(SeededUsers) + 1

---------------------------------------------------------------------------
(* SpecSignup: two callers sign up, or the admin adds users, concurrently, *)
(* with emails that differ only in letter case.                            *)

RaceEmails == { Email("b"), Email("B"), <<"A","@","S",".","I","O">> }

SignupRequests ==
  { Request(route, IF route = SignupRoute THEN NoToken ELSE TokenOf(AdminId, Epoch),
            UserBody(Rep("u", NameMin), e, GoodPassword, ShortAddress, <<>>)) :
      route \in { SignupRoute, AddUserRoute }, e \in RaceEmails }

NextSignup ==
  \E c \in Callers :
    \/ \E r \in SignupRequests : Receive(c, r)
    \/ CompleteUser(c)

SpecSignup == InitSeeded /\ [][NextSignup]_vars

\* caller c's INSERT INTO users is executed in this step
UserApplied(c) ==
  /\ req[c].pc = "pending"
  /\ req[c].route \in { SignupRoute, AddUserRoute }
  /\ req'[c].pc = "done"

SameEmail(e, f) == toLowerCase(e) = toLowerCase(f)

RowsWithEmail(us, e) == { i \in 1..Len(us) : SameEmail(us[i].email, e) }

\* C9: no two user rows have the same email compared case-insensitively; a
\* signup or add-user whose email differs from a stored one at most in
\* letter case is answered 409 and leaves the table as it was.
C9_EmailUniqueIgnoringCase ==
  /\ [](\A i, j \in 1..Len(users) : SameEmail(users[i].email, users[j].email) => i = j)
  /\ [][ \A c \in Callers :
           (UserApplied(c) /\ RowsWithEmail(users, req[c].body.email) # {}) =>
             /\ req'[c].status = 409
             /\ req'[c].message = "Email already exists."
             /\ users' = users ]_vars

\* a signup as B@s.io was answered 409 because b@s.io was stored: one row
C9_Witness ==
  \E c \in Callers :
    /\ req[c].pc = "done" /\ req[c].status = 409
    /\ req[c].body.email = Email("B")
    /\ Cardinality(RowsWithEmail(users, Email("B"))) = 1
    /\ \E i \in 1..Len(users) : users[i].email = Email("b") /\ users[i].id > Len(SeededUsers)

\* C10: of two signups with the same normalized email that are in flight
\* together, the one whose INSERT is executed first is answered 201 when the
\* email was free, the other 409; never are both answered 201, and one row
\* holds the email afterwards.
C10_OneOfTwoSignupsWins ==
  /\ [](\A c, d \in Callers :
          ( /\ c # d
            /\ req[c].pc = "done" /\ req[d].pc = "done"
            /\ req[c].route \in { SignupRoute, AddUserRoute }
            /\ req[d].route \in { SignupRoute, AddUserRoute }
            /\ SameEmail(req[c].body.email, req[d].body.email) )
          => /\ ~(req[c].status = 201 /\ req[d].status = 201)
             /\ req[c].status \in {201, 409} /\ req[d].status \in {201, 409}
             /\ Cardinality(RowsWithEmail(users, req[c].body.email)) = 1)
  /\ [][ \A c, d \in Callers :
           ( /\ c # d
             /\ UserApplied(c)
             /\ req[d].route \in { SignupRoute, AddUserRoute }
             /\ SameEmail(req[c].body.email, req[d].body.email)
             /\ \/ req[d].pc = "pending"
                \/ req[d].pc = "done" /\ req[d].status = 201 )
           => /\ Cardinality(RowsWithEmail(users', req[c].body.email)) = 1
              /\ (req'[c].status = 201) <=> (RowsWithEmail(users, req[c].body.email) = {})
              /\ (req'[c].status = 409) <=> (RowsWithEmail(users, req[c].body.email) # {})
              /\ (req[d].pc = "done" => req'[c].status = 409) ]_vars

\* b@s.io and B@s.io were in flight together: the request that arrived
\* first was answered 409, the other 201, and one row holds the email
C10_Witness ==
  /\ req[1].pc = "done" /\ req[2].pc = "done"
  /\ req[1].body.email = Email("b") /\ req[2].body.email = Email("B")
  /\ req[1].at < req[2].at
  /\ req[1].status = 409 /\ req[2].status = 201
  /\ Cardinality(RowsWithEmail(users, Email("b"))) = 1

---------------------------------------------------------------------------
(* SpecLogin: two callers log in, with registered emails in either letter  *)
(* case and an email nobody registered, with the right password, a wrong   *)
(* one and none.                                                           *)

LoginEmails == { Email("a"), Email("N"), Email("x") }

LoginPasswords == { GoodPassword, NewPassword, <<>> }

LoginRequests ==
  { Request(LoginRoute, NoToken, LoginBody(e, p)) : e \in LoginEmails, p \in LoginPasswords }

NextLogin ==
  \E c \in Callers :
    \/ \E r \in LoginRequests : Receive(c, r)
    \/ CompleteLogin(c)

SpecLogin == InitSeeded /\ [][NextLogin]_vars

Registered(email) == \E i \in 1..Len(users) : SameEmail(users[i].email, email)

\* what the caller sees of a login
LoginResponse(r) == <<r.status, r.message, r.issued>>

\* C11: a login with a registered email and a wrong password and a login
\* with an email that is not registered get the same response: status 401,
\* the same message and no token.
C11_LoginFailuresAlike ==
  \A c, d \in Callers :
    ( /\ req[c].pc = "done" /\ req[c].route = LoginRoute
      /\ req[d].pc = "done" /\ req[d].route = LoginRoute
      /\ Registered(req[c].body.email)
      /\ req[c].body.password \notin { <<>>, GoodPassword }
      /\ ~Registered(req[d].body.email)
      /\ req[d].body.password # <<>> )
    => /\ LoginResponse(req[c]) = LoginResponse(req[d])
       /\ req[c].status = 401
       /\ req[c].issued = NoToken

\* N@s.io, registered as n@s.io, with a wrong password and x@s.io, not
\* registered, with the password of the others: both were answered
C11_Witness ==
  /\ req[1].pc = "done" /\ req[1].route = LoginRoute
  /\ req[1].body = LoginBody(Email("N"), NewPassword)
  /\ req[2].pc = "done" /\ req[2].route = LoginRoute
  /\ req[2].body = LoginBody(Email("x"), GoodPassword)
  /\ req[1].status = 401 /\ req[2].status = 401

---------------------------------------------------------------------------
(* SpecSession: a client logs in, keeps the token and sends it with later  *)
(* requests, before and after the token's lifetime has passed.             *)

Credentials == { LoginBody(e, p) : e \in LoginEmails, p \in { GoodPassword, NewPassword } }

SessionRoutes == { RatingRoute, DashboardRoute }

NextSession ==
  \/ \E k \in Credentials : ClientLogin(1, k)
  \/ CompleteLogin(1)
  \/ ClientSettle(1)
  \/ \E d \in Delays : Elapse(d)
  \/ \E route \in SessionRoutes : ClientFetch(1, route, RouteBody(route))
  \/ CompleteRating(1)
  \/ CompleteRead(1)

SpecSession == InitSeeded /\ [][NextSession]_vars

\* the user rows a lower-cased email selects
RowsFound(email) == { i \in 1..Len(users) : users[i].email = toLowerCase(email) }

\* the token is within 24 hours of its issue at time t
Within24Hours(token, t) == t < token.iat + 24 * 60 * 60

\* C12: the token of a successful login carries the id and the role of the
\* user row found by the lower-cased email; a request bearing a token the
\* server issued is authenticated as the user of that id, with that user's
\* role, while fewer than 24 hours have passed since the issue, and is
\* refused as "Invalid token", its handler not entered, from then on.
C12_TokenLifetime ==
  \A c \in Callers :
    /\ (req[c].route = LoginRoute /\ req[c].pc \in { "done", "settled" } /\ req[c].status = 200) =>
         /\ req[c].issued.sig = "valid"
         /\ \E i \in RowsFound(req[c].body.email) :
              /\ req[c].issued.id = users[i].id
              /\ req[c].issued.role = users[i].user_role
    /\ (req[c].route \in BearerRoutes /\ req[c].pc # "idle" /\ req[c].token.sig = "valid") =>
         IF Within24Hours(req[c].token, req[c].at)
           THEN /\ Outcome(req[c]) \notin Unauthenticated
                /\ \E i \in 1..Len(users) :
                     /\ users[i].id = req[c].token.id
                     /\ users[i].user_role = req[c].token.role
                     /\ req[c].route = DashboardRoute =>
                          IF users[i].user_role = "admin" THEN req[c].ran
                          ELSE Outcome(req[c]) = Forbidden
                     /\ (req[c].route = RatingRoute /\ req[c].pc \in { "done", "settled" }) =>
                          /\ req[c].status = 200
                          /\ RowsOf(ratings, users[i].id, req[c].body.store_id) # {}
           ELSE /\ Outcome(req[c]) = <<403, "Invalid token">>
                /\ ~req[c].ran
                /\ req[c].pc \in { "done", "settled" }

\* the admin logged in as a@s.io; the token was accepted in the last second
\* of its 24 hours, when the rating it carried was written under the admin's
\* id, and refused one second later
C12_Witness ==
  /\ req[1].route = DashboardRoute /\ req[1].pc = "done"
  /\ req[1].token = localStorage[1]
  /\ req[1].token.sig = "valid"
  /\ req[1].token.id = AdminId /\ req[1].token.role = "admin"
  /\ req[1].at = req[1].token.iat + ExpiresIn
  /\ Outcome(req[1]) = <<403, "Invalid token">>
  /\ \E i \in RowsOf(ratings, AdminId, 1) : ratings[i].created_at = req[1].token.iat + ExpiresIn - 1

---------------------------------------------------------------------------
(* SpecClientSignup: a client signs up or logs in, keeps what the response *)
(* gives as its token and sends it with later requests.                    *)

SignupData ==
  { UserBody(Rep("u", NameMin), e, GoodPassword, ShortAddress, <<>>) :
      e \in { Email("u"), Email("v"), Email("N") } }

NextClientSignup ==
  \/ \E d \in SignupData : ClientSignup(1, d)
  \/ CompleteUser(1)
  \/ \E k \in Credentials : ClientLogin(1, k)
  \/ CompleteLogin(1)
  \/ ClientSettle(1)
  \/ \E route \in SessionRoutes : ClientFetch(1, route, RouteBody(route))
  \/ CompleteRating(1)
  \/ CompleteRead(1)

SpecClientSignup == InitSeeded /\ [][NextClientSignup]_vars

\* C13 (the claim as stated): once a POST /signup has succeeded and the
\* client has stored the token of its response, the client is logged in:
\* the bearer request it sends next is not refused as unauthenticated.
C13_SignupLogsIn ==
  [][ \A c \in Callers :
        ( /\ req[c].route = SignupRoute
          /\ req[c].pc = "settled"
          /\ req[c].status = 201
          /\ Arrives(c)
          /\ req'[c].route \in BearerRoutes )
        => Outcome(req'[c]) \notin Unauthenticated ]_vars

---------------------------------------------------------------------------
(* SpecPassword: two callers with the tokens of a normal user, a store     *)
(* owner and the admin change the password of one of two users.            *)

PasswordTokens == { TokenOf(RaterId, Epoch), TokenOf(OwnerId, Epoch), TokenOf(AdminId, Epoch) }

\* "short"
ShortPassword == <<"s","h","o","r","t">>

PasswordRequests ==
  { Request(PasswordRoute, t, PasswordBody(id, p)) :
      t \in PasswordTokens, id \in { RaterId, OtherRaterId },
      p \in { NewPassword, ShortPassword } }

NextPassword ==
  \E c \in Callers :
    \/ \E r \in PasswordRequests : Receive(c, r)
    \/ CompletePassword(c)

SpecPassword == InitSeeded /\ [][NextPassword]_vars

\* caller c's UPDATE users SET password is executed in this step
PasswordApplied(c) ==
  /\ req[c].pc = "pending"
  /\ req[c].route = PasswordRoute
  /\ req'[c].pc = "done"

---------------------------------------------------------------------------
(* SpecPasswordRule: caller 1 signs up and caller 2 changes its own        *)
(* password, with passwords on both sides of every part of the rule.       *)

RulePasswords == SignupPasswords \cup { <<>>, ShortPassword, NewPassword }

RuleSignups ==
  { Request(SignupRoute, NoToken,
            UserBody(Rep("u", NameMin), Email("u"), p, ShortAddress, <<>>)) :
      p \in RulePasswords }

RuleChanges ==
  { Request(PasswordRoute, TokenOf(RaterId, Epoch), PasswordBody(RaterId, p)) :
      p \in RulePasswords }

NextPasswordRule ==
  \/ \E r \in RuleSignups : Receive(1, r)
  \/ CompleteUser(1)
  \/ \E r \in RuleChanges : Receive(2, r)
  \/ CompletePassword(2)

SpecPasswordRule == InitSeeded /\ [][NextPasswordRule]_vars

\* the rule as the claim words it
ViolatesPasswordRule(p) ==
  \/ Len(p) < 8
  \/ Len(p) > 16
  \/ ~HasUpper(p)
  \/ ~HasSpecial(p)

\* the signup got past validateUserPayload
SignupAccepted(r) == r.ran

\* the password change got to its UPDATE
ChangeAccepted(r) == r.pc = "pending" \/ r.status = 200

\* C15: a password change by the user itself is accepted exactly when a
\* signup that is valid apart from its password is accepted with the same
\* password; a new password shorter than 8 or longer than 16 characters, or
\* without an uppercase letter or a special character, is answered 400 and
\* no stored password changes.
C15_SameRuleAsSignup ==
  /\ [](\A c, d \in Callers :
          ( /\ req[c].route = SignupRoute /\ req[c].pc # "idle"
            /\ req[d].route = PasswordRoute /\ req[d].pc # "idle"
            /\ req[c].body.password = req[d].body.password )
          => (SignupAccepted(req[c]) <=> ChangeAccepted(req[d])))
  /\ [][ \A c \in Callers :
           ( /\ Arrives(c)
             /\ req'[c].route = PasswordRoute
             /\ ViolatesPasswordRule(req'[c].body.password) )
           => /\ req'[c].pc = "done"
              /\ req'[c].status = 400
              /\ \A i \in 1..Len(users) : users'[i].password = users[i].password ]_vars

\* a password of 17 characters was refused at signup and as a new password,
\* after one of 16 characters had replaced the user's password
C15_Witness ==
  /\ req[1].route = SignupRoute /\ req[1].pc = "done" /\ req[1].status = 400
  /\ req[2].route = PasswordRoute /\ req[2].pc = "done" /\ req[2].status = 400
  /\ req[1].body.password = req[2].body.password
  /\ Len(req[2].body.password) = 17
  /\ HasUpper(req[2].body.password) /\ HasSpecial(req[2].body.password)
  /\ users[RaterId].password = bcryptHash(<<"A","!">> \o Rep("p", 14))

---------------------------------------------------------------------------
(* SpecHash: two callers sign up, have the admin add a user, change a      *)
(* user's password and log in, with two passwords.                         *)

Plaintexts == { GoodPassword, NewPassword }

HashRequests ==
  { Request(SignupRoute, NoToken,
            UserBody(Rep("u", NameMin), Email("u"), p, ShortAddress, <<>>)) : p \in Plaintexts }
  \cup { Request(AddUserRoute, TokenOf(AdminId, Epoch),
                 UserBody(Rep("v", NameMin), Email("v"), p, ShortAddress, <<>>)) : p \in Plaintexts }
  \cup { Request(PasswordRoute, TokenOf(RaterId, Epoch), PasswordBody(RaterId, p)) :
           p \in Plaintexts }
  \cup { Request(LoginRoute, NoToken, LoginBody(e, p)) :
           e \in { Email("n"), Email("u") }, p \in Plaintexts }

NextHash ==
  \E c \in Callers :
    \/ \E r \in HashRequests : Receive(c, r)
    \/ CompleteUser(c)
    \/ CompletePassword(c)
    \/ CompleteLogin(c)

SpecHash == InitSeeded /\ [][NextHash]_vars

\* caller c's POST /login is answered in this step
LoginApplied(c) ==
  /\ req[c].pc = "pending"
  /\ req[c].route = LoginRoute
  /\ req'[c].pc = "done"

\* C16: no stored password field equals a plaintext password; the field a
\* signup or an add-user writes, and the field a password change writes,
\* verifies the plaintext it was made from and differs from it; after a
\* change the field no longer verifies a different password that it
\* verified before; and a login succeeds exactly with a password that the
\* stored field of the user verifies.
C16_StoredHashVerifies ==
  /\ [](\A i \in 1..Len(users) : users[i].password \notin Plaintexts)
  /\ [][ \A c \in Callers :
           /\ (UserApplied(c) /\ req'[c].status = 201) =>
                /\ Len(users') = Len(users) + 1
                /\ users'[Len(users')].password # req[c].body.password
                /\ bcryptCompare(req[c].body.password, users'[Len(users')].password)
           /\ PasswordApplied(c) =>
                \A i \in 1..Len(users) :
                  users[i].id = req[c].body.id =>
                    /\ users'[i].password # req[c].body.password
                    /\ bcryptCompare(req[c].body.password, users'[i].password)
                    /\ \A q \in Plaintexts :
                         (q # req[c].body.password /\ bcryptCompare(q, users[i].password))
                           => ~bcryptCompare(q, users'[i].password)
           /\ LoginApplied(c) =>
                ( req'[c].status = 200 <=>
                    \E i \in RowsFound(req[c].body.email) :
                      bcryptCompare(req[c].body.password, users[i].password) ) ]_vars

\* after the user n changed its password, a login with the password that
\* was replaced was answered 401 and a login with the new one 200
C16_Witness ==
  /\ req[1].pc = "done" /\ req[1].route = LoginRoute
  /\ req[1].body = LoginBody(Email("n"), GoodPassword)
  /\ req[1].status = 401
  /\ req[2].pc = "done" /\ req[2].route = LoginRoute
  /\ req[2].body = LoginBody(Email("n"), NewPassword)
  /\ req[2].status = 200
  /\ users[RaterId].password # SeededUsers[RaterId].password
  /\ users[RaterId].password # NewPassword

---------------------------------------------------------------------------
(* SpecRole: a caller signs up, and the admin adds a user, with role       *)
(* inputs in several spellings.                                            *)

RoleInputs ==
  { <<>>,
    <<"a","d","m","i","n">>,
    <<"A","D","M","I","N">>,
    <<"A","d","m","i","n">>,
    <<"s","t","o","r","e","_","o","w","n","e","r">>,
    <<"S","t","o","r","e","_","O","w","n","e","r">>,
    <<"o","w","n","e","r">>,
    <<"O","W","N","E","R">>,
    <<"s","t","o","r","e","o","w","n","e","r">>,
    <<"S","t","o","r","e","O","w","n","e","r">>,
    <<"n","o","r","m","a","l">>,
    <<"m","a","n","a","g","e","r">>,
    <<"s","t","o","r","e"," ","o","w","n","e","r">>,
    <<" ","a","d","m","i","n">>,
    <<"a","d","m","i","n","s">> }

RoleRequests ==
  { Request(SignupRoute, NoToken,
            UserBody(Rep("u", NameMin), Email("u"), GoodPassword, ShortAddress, r)) :
      r \in RoleInputs }
  \cup { Request(AddUserRoute, TokenOf(AdminId, Epoch),
                 UserBody(Rep("v", NameMin), Email("v"), GoodPassword, ShortAddress, r)) :
           r \in RoleInputs }

NextRole ==
  \/ \E r \in RoleRequests : Receive(1, r)
  \/ CompleteUser(1)

SpecRole == InitSeeded /\ [][NextRole]_vars

SameIgnoringCase(a, b) == toLowerCase(a) = toLowerCase(b)

\* the role the claim gives for a role input
ClaimedRole(input) ==
  IF SameIgnoringCase(input, <<"a","d","m","i","n">>) THEN "admin"
  ELSE IF \/ SameIgnoringCase(input, <<"s","t","o","r","e","_","o","w","n","e","r">>)
          \/ SameIgnoringCase(input, <<"o","w","n","e","r">>)
          \/ SameIgnoringCase(input, <<"s","t","o","r","e","o","w","n","e","r">>)
    THEN "store_owner"
  ELSE "normal"

\* C17: every stored role is one of normal, store_owner and admin; the row a
\* signup or an add-user writes has the role admin for the input admin, the
\* role store_owner for the inputs store_owner, owner and storeowner, in any
\* letter case, and the role normal for no input and for any other string.
C17_RoleNormalized ==
  /\ [](\A i \in 1..Len(users) : users[i].user_role \in { "normal", "store_owner", "admin" })
  /\ [][ \A c \in Callers :
           (UserApplied(c) /\ req'[c].status = 201) =>
             /\ Len(users') = Len(users) + 1
             /\ users'[Len(users')].user_role = ClaimedRole(req[c].body.role) ]_vars

\* the admin added a user with the role input "StoreOwner", stored as
\* store_owner, after a signup with another role input
C17_Witness ==
  /\ req[1].pc = "done" /\ req[1].status = 201 /\ req[1].route = AddUserRoute
  /\ req[1].body.role = <<"S","t","o","r","e","O","w","n","e","r">>
  /\ Len(users) = Len(SeededUsers) + 2
  /\ users[Len(users)].email = Email("v")
  /\ users[Len(users)].user_role = "store_owner"
  /\ users[Len(users) - 1].user_role = "normal"

---------------------------------------------------------------------------
(* SpecFrame: every route that writes or is guarded, called with no token, *)
(* a forged token, an expired token and the tokens of the three roles.     *)

FrameRequests ==
  RouteRequests
  \cup { Request(SignupRoute, NoToken,
                 UserBody(Rep("w", NameMin), Email("w"), GoodPassword, ShortAddress, <<>>)) }
  \cup { Request(LoginRoute, NoToken, LoginBody(Email("n"), p)) : p \in Plaintexts }
  \cup { Request(PasswordRoute, TokenOf(AdminId, Epoch), PasswordBody(AdminId, NewPassword)) }

NextFrame ==
  \/ \E r \in FrameRequests : Receive(1, r)
  \/ CompleteUser(1)
  \/ CompleteStore(1)
  \/ CompleteRating(1)
  \/ CompletePassword(1)
  \/ CompleteLogin(1)
  \/ CompleteRead(1)

SpecFrame == InitSeeded /\ [][NextFrame]_vars

\* C18: no step deletes a user row or changes the id, name, email, address
\* or role of one; a step changes the password field of a row only when it
\* executes the UPDATE of a PUT /users/:id/password for that row.
C18_UserRowsFramed ==
  [][ /\ Len(users') >= Len(users)
      /\ \A i \in 1..Len(users) :
           /\ users'[i].id = users[i].id
           /\ users'[i].name = users[i].name
           /\ users'[i].email = users[i].email
           /\ users'[i].address = users[i].address
           /\ users'[i].user_role = users[i].user_role
           /\ users'[i].password # users[i].password =>
                \E c \in Callers : PasswordApplied(c) /\ req[c].body.id = users[i].id ]_vars

\* the admin changed its own password after a signup added a row: the row
\* of the admin differs from the seeded one in the password alone
C18_Witness ==
  /\ req[1].pc = "done" /\ req[1].route = PasswordRoute /\ req[1].status = 200
  /\ req[1].body.id = AdminId
  /\ Len(users) = Len(SeededUsers) + 1
  /\ users[AdminId].password # SeededUsers[AdminId].password
  /\ users[AdminId] = [ SeededUsers[AdminId] EXCEPT !.password = users[AdminId].password ]

\* caller c's INSERT INTO stores is executed in this step
StoreApplied(c) ==
  /\ req[c].pc = "pending"
  /\ req[c].route = AddStoreRoute
  /\ req'[c].pc = "done"

\* C19: the stores table changes only by gaining one row, in a step that
\* executes the INSERT of a POST /stores whose token is valid and has the
\* role admin; a POST /stores with no token, an invalid or expired token or
\* another role does not reach the handler; no step changes or removes an
\* existing store row.
C19_StoresByAdminOnly ==
  [][ /\ Len(stores') >= Len(stores)
      /\ \A i \in 1..Len(stores) : stores'[i] = stores[i]
      /\ stores' # stores =>
           /\ Len(stores') = Len(stores) + 1
           /\ \E c \in Callers :
                /\ StoreApplied(c)
                /\ GoodToken(req[c].token, req[c].at)
                /\ req[c].token.role = "admin"
      /\ \A c \in Callers :
           ( /\ Arrives(c)
             /\ req'[c].route = AddStoreRoute
             /\ ~(GoodToken(req'[c].token, req'[c].at) /\ req'[c].token.role = "admin") )
           => /\ req'[c].pc = "done"
              /\ ~req'[c].ran
              /\ req'[c].status \in { 401, 403 } ]_vars

\* the store owner's POST /stores was refused after the admin's had added
\* a third store beside the two unchanged ones
C19_Witness ==
  /\ req[1].pc = "done" /\ req[1].route = AddStoreRoute
  /\ req[1].token = TokenOf(OwnerId, Epoch)
  /\ Outcome(req[1]) = Forbidden
  /\ Len(stores) = Len(SeededStores) + 1
  /\ SubSeq(stores, 1, Len(SeededStores)) = SeededStores

---------------------------------------------------------------------------
(* SpecStores: the admin and a store owner add stores, for an owner id     *)
(* that some user has, for one that no user has, and without one.          *)

\* an id beyond those of the users table
UnknownUserId == Len(SeededUsers) + 5

StoreRequests ==
  { Request(AddStoreRoute, t, StoreBody(n, ShortAddress, o)) :
      t \in { TokenOf(AdminId, Epoch), TokenOf(OwnerId, Epoch) },
      n \in { <<"S","3">>, <<"S","4">> },
      o \in { 0, OwnerId, RaterId, UnknownUserId } }

NextStores ==
  \/ \E r \in StoreRequests : Receive(1, r)
  \/ CompleteStore(1)

SpecStores == InitSeeded /\ [][NextStores]_vars

\* C20 (the claim as stated): the owner_id of every store row is the id of
\* a row of the users table.
C20_OwnerExists ==
  \A i \in 1..Len(stores) : \E j \in 1..Len(users) : users[j].id = stores[i].owner_id

---------------------------------------------------------------------------
(* SpecList: the admin lists users and stores under every spelling of      *)
(* sortBy and order, while stores are added, by two callers at once.       *)

\* values of sortBy that name no listed column
UnlistedSorts == { ColPassword, <<"r","o","l","e">>, <<"c","r","e","a","t","e","d","A","t">>, <<"o","w","n","e","r","I","d">>, <<"N","A","M","E">> }

SortInputs ==
  { <<>>, ColId, ColName, ColEmail, ColAddress, ColUserRole, ColOwnerId, ColCreatedAt }
    \cup UnlistedSorts

OrderInputs == { <<>>, <<"D","e","s","c">> }

\* spellings of order that are not desc
OtherOrders == { <<"a","s","c">>, <<"u","p">> }

ListQuery(sortBy, order) == [ NoBody EXCEPT !.sortBy = sortBy, !.order = order ]

\* queries with a filter: the users named n, the users of role normal, the
\* stores whose name holds a 1, the stores of the seeded owner
FilterQueries(route) ==
  IF route = ListUsersRoute
    THEN { [ NoBody EXCEPT !.name = <<"N">>, !.sortBy = ColEmail ],
           [ NoBody EXCEPT !.role = <<"n","o","r","m","a","l">>, !.sortBy = ColName, !.order = <<"D","e","s","c">> ] }
    ELSE { [ NoBody EXCEPT !.name = <<"1">>, !.sortBy = ColName ],
           [ NoBody EXCEPT !.owner_id = OwnerId, !.sortBy = ColName, !.order = <<"D","e","s","c">> ] }

ListRequests ==
  { Request(route, TokenOf(AdminId, Epoch), q) :
      route \in { ListUsersRoute, ListStoresRoute },
      q \in { ListQuery(sb, o) : sb \in SortInputs, o \in OrderInputs }
              \cup { ListQuery(ColName, o) : o \in OtherOrders } }
  \cup { Request(ListUsersRoute, TokenOf(AdminId, Epoch), q) :
           q \in FilterQueries(ListUsersRoute) }
  \cup { Request(ListStoresRoute, TokenOf(AdminId, Epoch), q) :
           q \in FilterQueries(ListStoresRoute) }

\* a store of the admin's, named before the seeded stores
NewStoreRequests ==
  { Request(AddStoreRoute, TokenOf(AdminId, Epoch), StoreBody(<<"S","0">>, ShortAddress, AdminId)) }

NextList ==
  \/ \E r \in ListRequests : Receive(1, r)
  \/ \E c \in Callers, r \in NewStoreRequests : Receive(c, r)
  \/ \E c \in Callers : CompleteStore(c)
  \/ CompleteRead(1)

SpecList == InitSeeded /\ [][NextList]_vars

\* a list request that was answered by its handler
ListDone(c) ==
  /\ req[c].pc = "done"
  /\ req[c].ran
  /\ req[c].route \in { ListUsersRoute, ListStoresRoute }

\* order was sent as desc, in any case
Descending(order) == toLowerCase(order) = <<"d","e","s","c">>

\* the stored row a listed row shows
Stored(c, row) ==
  IF req[c].route = ListUsersRoute THEN users[row.id] ELSE stores[row.id]

\* the sort key of a listed row under the column col
ListedKey(c, row, col) ==
  IF req[c].route = ListUsersRoute THEN userKey(Stored(c, row), col)
                                   ELSE storeKey(Stored(c, row), col)

\* the rows of the response are in the order of the column col
SortedBy(c, col) ==
  \A k \in 1..(Len(req[c].rows) - 1) :
    IF Descending(req[c].body.order)
      THEN KeyLessEq(ListedKey(c, req[c].rows[k + 1], col), ListedKey(c, req[c].rows[k], col))
      ELSE KeyLessEq(ListedKey(c, req[c].rows[k], col), ListedKey(c, req[c].rows[k + 1], col))

\* the columns the handler of the route lets through
Listed(route) == IF route = ListUsersRoute THEN ALLOWED_USER_SORT ELSE ALLOWED_STORE_SORT

\* C21: a list of users or of stores asked with a sortBy that the route's
\* allow-list does not hold is answered 200 with the rows in the order of
\* their ids: the request does not fail and the value sent is not used.
C21_UnlistedSortFallsBack ==
  \A c \in Callers :
    ( /\ ListDone(c)
      /\ req[c].body.sortBy # <<>>
      /\ ~includes(Listed(req[c].route), req[c].body.sortBy) )
    => /\ req[c].status = 200
       /\ SortedBy(c, ColId)

\* the users listed under sortBy=password came back in the order of their ids
C21_Witness ==
  /\ ListDone(1)
  /\ req[1].route = ListUsersRoute
  /\ req[1].body.sortBy = ColPassword
  /\ req[1].status = 200
  /\ Len(req[1].rows) = Len(users)
  /\ Descending(req[1].body.order)
  /\ req[1].rows[1].id = Len(users)

\* the allow-lists as the specification words them
SpecUserSorts == { ColId, ColName, ColEmail, ColAddress, <<"r","o","l","e">>, <<"c","r","e","a","t","e","d","A","t">> }
SpecStoreSorts == { ColId, ColName, ColAddress, <<"o","w","n","e","r","I","d">>, <<"c","r","e","a","t","e","d","A","t">> }

\* the column a value of sortBy asks for
ColumnOf(sortBy) ==
  IF sortBy = <<"r","o","l","e">> THEN ColUserRole
  ELSE IF sortBy = <<"c","r","e","a","t","e","d","A","t">> THEN ColCreatedAt
  ELSE IF sortBy = <<"o","w","n","e","r","I","d">> THEN ColOwnerId
  ELSE sortBy

\* C22 as stated: listUsers orders by the requested field for every sortBy
\* of {id, name, email, address, role, createdAt}, and listStores for every
\* sortBy of {id, name, address, ownerId, createdAt}.
C22_ListedAsWorded ==
  \A c \in Callers :
    ( /\ ListDone(c)
      /\ req[c].body.sortBy \in
           (IF req[c].route = ListUsersRoute THEN SpecUserSorts ELSE SpecStoreSorts) )
    => /\ req[c].status = 200
       /\ SortedBy(c, ColumnOf(req[c].body.sortBy))

\* C22, amended: listUsers orders its result by the requested column for
\* every sortBy of {id, name, email, address, user_role, created_at}, and
\* listStores for every sortBy of {id, name, address, owner_id, created_at};
\* none of these values falls back to id.
C22_ListedColumnsSort ==
  \A c \in Callers :
    ( /\ ListDone(c)
      /\ req[c].body.sortBy \in
           (IF req[c].route = ListUsersRoute
              THEN { ColId, ColName, ColEmail, ColAddress, ColUserRole, ColCreatedAt }
              ELSE { ColId, ColName, ColAddress, ColOwnerId, ColCreatedAt }) )
    => /\ req[c].status = 200
       /\ SortedBy(c, req[c].body.sortBy)

\* the stores listed under sortBy=created_at came back with a later id
\* before an earlier one
C22_Witness ==
  /\ ListDone(1)
  /\ req[1].route = ListStoresRoute
  /\ req[1].body.sortBy = ColCreatedAt
  /\ ~Descending(req[1].body.order)
  /\ \E k \in 1..(Len(req[1].rows) - 1) : req[1].rows[k].id > req[1].rows[k + 1].id

---------------------------------------------------------------------------
(* SpecAverage: ratings are submitted and overwritten, and the aggregate   *)
(* of a store is read through both public routes.                          *)

\* the ratings already there: the owner and the admin gave the first
\* seeded store the highest rating
SeededRatings ==
  upsert(upsert(<<>>, SeededStores[1].id, OwnerId, Num(2 * RatingMax),
                Len(SeededUsers) + Len(SeededStores)),
         SeededStores[1].id, AdminId, Num(2 * RatingMax),
         Len(SeededUsers) + Len(SeededStores) + 1)

InitRated ==
  /\ users = SeededUsers
  /\ stores = SeededStores
  /\ ratings = SeededRatings
  /\ now = Epoch
  /\ req = [ c \in Callers |-> Idle ]
  /\ probe = NoProbe
  /\ localStorage = [ c \in Callers |-> NoToken ]
  /\ elapsed = 0

\* a store id that no store and no rating has
UnknownStoreId == Len(SeededStores) + 1

AverageRequests ==
  { Request(RatingRoute, TokenOf(id, Epoch), RatingBody(SeededStores[k].id, Num(2 * v))) :
      id \in { AdminId, RaterId, OtherRaterId }, k \in 1..Len(SeededStores),
      v \in { RatingMin, RatingMax - 1, RatingMax } }
  \cup { Request(AverageRoute, NoToken, [ NoBody EXCEPT !.id = id ]) :
           id \in 1..UnknownStoreId }
  \cup { Request(StoreRatingsRoute, NoToken, [ NoBody EXCEPT !.store_id = id ]) :
           id \in 1..UnknownStoreId }

NextAverage ==
  \/ \E r \in AverageRequests : Receive(1, r)
  \/ CompleteRating(1)
  \/ CompleteRead(1)

SpecAverage == InitRated /\ [][NextAverage]_vars

\* the store a request for the aggregate names
StoreAsked(r) == IF r.route = AverageRoute THEN r.body.id ELSE r.body.store_id

\* the rating rows now stored for store S
RatingsOf(S) == { i \in 1..Len(ratings) : ratings[i].store_id = S }

\* the distance between two integers
Distance(a, b) == IF a < b THEN b - a ELSE a - b

\* C23: when the aggregate of store S is answered, its count is the number
\* of rating rows stored for S at that moment, and its average is null if
\* there is none and otherwise the hundredth nearest to the mean of the
\* values those rows hold then (a value that was overwritten is not among
\* them).
C23_AverageIsLive ==
  [][ \A c \in Callers :
        ( /\ req[c].pc = "pending"
          /\ req[c].route \in { AverageRoute, StoreRatingsRoute }
          /\ req'[c].pc = "done" )
        => LET F == RatingsOf(StoreAsked(req[c]))
               n == Cardinality(F)
           IN  /\ req'[c].status = 200
               /\ Len(req'[c].stats) = 1
               /\ req'[c].stats[1].total_ratings = n
               /\ n = 0 => req'[c].stats[1].avg_rating = Null
               /\ n > 0 =>
                    /\ req'[c].stats[1].avg_rating.t = "numeric"
                    /\ 2 * Distance(n * req'[c].stats[1].avg_rating.h,
                                    100 * SumRatings(ratings, F)) <= n ]_vars

\* an aggregate was answered for a store one of whose ratings had been
\* overwritten, with an average that is not the mean exactly
C23_Witness ==
  /\ req[1].pc = "done"
  /\ req[1].route = AverageRoute
  /\ Len(req[1].stats) = 1
  /\ req[1].stats[1].total_ratings = Cardinality(RatingsOf(req[1].body.id))
  /\ req[1].stats[1].total_ratings > 2
  /\ req[1].stats[1].avg_rating.t = "numeric"
  /\ req[1].stats[1].total_ratings * req[1].stats[1].avg_rating.h
       # 100 * SumRatings(ratings, RatingsOf(req[1].body.id))
  /\ \E i \in RatingsOf(req[1].body.id) : ratings[i].updated_at > ratings[i].created_at

---------------------------------------------------------------------------
(* SpecOwner: the owner's ratings are asked for by every kind of caller    *)
(* and for several ids, while ratings are submitted.                       *)

OwnerTokens ==
  { NoToken, TokenOf(AdminId, Epoch), TokenOf(OwnerId, Epoch), TokenOf(RaterId, Epoch) }

OwnerRequests ==
  { Request(OwnerRoute, token, OwnerParams(id)) :
      token \in OwnerTokens, id \in { AdminId, OwnerId, RaterId } }
  \cup { Request(RatingRoute, TokenOf(RaterId, Epoch),
                 RatingBody(SeededStores[k].id, Num(2 * RatingMin))) :
           k \in 1..Len(SeededStores) }

NextOwner ==
  \/ \E c \in Callers, r \in OwnerRequests : Receive(c, r)
  \/ \E c \in Callers : CompleteRating(c)
  \/ \E c \in Callers : CompleteRead(c)

SpecOwner == InitSeeded /\ [][NextOwner]_vars

\* the response carries rating data
CarriesData(c) == req[c].rows # <<>> \/ req[c].stats # <<>>

\* the caller is the owner the path names, or an admin
OwnerOrAdmin(r) ==
  /\ GoodToken(r.token, r.at)
  /\ \/ r.token.role = "store_owner" /\ r.token.id = r.body.id
     \/ r.token.role = "admin"

---------------------------------------------------------------------------
(* SpecValidation: signups whose fields are each sound, unsound or         *)
(* missing, in every combination.                                          *)

ValidationNames == { Rep("v", NameMin), <<"v">>, <<>> }

ValidationAddresses == { ShortAddress, Rep("r", AddressMax + 1), <<>> }

ValidationPasswords == { GoodPassword, ShortPassword, <<>> }

ValidationEmails == { Email("v"), <<"v","@","s">>, <<>> }

ValidationRequests ==
  { Request(SignupRoute, NoToken, UserBody(name, email, password, address, <<>>)) :
      name \in ValidationNames, email \in ValidationEmails,
      password \in ValidationPasswords, address \in ValidationAddresses }

NextValidation ==
  \/ \E r \in ValidationRequests : Receive(1, r)
  \/ CompleteUser(1)

SpecValidation == InitSeeded /\ [][NextValidation]_vars

\* the rules of a user payload in the order the claim gives them, each with
\* whether the payload breaks it and the message that reports it
RulesInOrder(body) ==
  << [ broken |-> \E f \in { body.name, body.email, body.password, body.address } : f = <<>>,
       message |-> "All fields are required." ],
     [ broken |-> Len(trim(body.name)) < NameMin \/ Len(trim(body.name)) > NameMax,
       message |-> "Name must be between 20 and 60 characters." ],
     [ broken |-> Len(body.address) > AddressMax,
       message |-> "Address must be at most 400 characters." ],
     [ broken |-> ViolatesPasswordRule(body.password),
       message |-> "Password must be 8-16 characters, include at least one uppercase letter and one special character." ],
     [ broken |-> ~emailRegex(body.email),
       message |-> "Invalid email address." ] >>

BrokenRules(body) == { k \in 1..Len(RulesInOrder(body)) : RulesInOrder(body)[k].broken }

\* the first rule of the order that the payload breaks
FirstBroken(body) == CHOOSE k \in BrokenRules(body) : \A j \in BrokenRules(body) : k <= j

\* C25: a signup whose payload breaks one rule or several is answered 400
\* with the message of the first rule it breaks in the order: a required
\* field missing, name length, address length, password complexity, email
\* shape.
C25_FirstFailingRule ==
  \A c \in Callers :
    ( /\ req[c].route = SignupRoute
      /\ req[c].pc = "done"
      /\ BrokenRules(req[c].body) # {} )
    => /\ req[c].status = 400
       /\ req[c].message = RulesInOrder(req[c].body)[FirstBroken(req[c].body)].message

\* a signup that breaks the password rule and the email rule, and no rule
\* before them, was answered with the password rule
C25_Witness ==
  /\ req[1].route = SignupRoute
  /\ req[1].pc = "done"
  /\ BrokenRules(req[1].body) = { Len(RulesInOrder(req[1].body)) - 1, Len(RulesInOrder(req[1].body)) }
  /\ req[1].status = 400
  /\ req[1].message = RulesInOrder(req[1].body)[Len(RulesInOrder(req[1].body)) - 1].message

---------------------------------------------------------------------------
(* SpecRater: two callers submit ratings whose bodies name a rater, their  *)
(* own id or another user's.                                               *)

RaterRequests ==
  { Request(RatingRoute, TokenOf(id, Epoch),
            [ RatingBody(SeededStores[1].id, Num(2 * v)) EXCEPT !.user_id = user_id ]) :
      id \in { RaterId, OtherRaterId },
      user_id \in { 0, AdminId, RaterId, OtherRaterId },
      v \in { RatingMin, RatingMax - 1 } }

NextRater ==
  \/ \E c \in Callers, r \in RaterRequests : Receive(c, r)
  \/ \E c \in Callers : CompleteRating(c)

SpecRater == InitRated /\ [][NextRater]_vars

\* C26: the rating row that a POST /ratings adds or changes has as user_id
\* the id in the caller's token, whatever user_id the body holds; the rows
\* of other users stay as they are.
C26_RaterIsTokenId ==
  [][ \A c \in Callers :
        ( /\ req[c].pc = "pending"
          /\ req[c].route = RatingRoute
          /\ req'[c].pc = "done" )
        => /\ Len(ratings') >= Len(ratings)
           /\ \A i \in 1..Len(ratings') :
                (i > Len(ratings) \/ ratings'[i] # ratings[i])
                  => ratings'[i].user_id = req[c].token.id ]_vars

\* a rating sent with the admin's id in the body was stored under the
\* caller's id, and the admin's own rating is as it was
C26_Witness ==
  /\ req[1].pc = "done"
  /\ req[1].route = RatingRoute
  /\ req[1].status = 200
  /\ req[1].token.id = RaterId
  /\ req[1].body.user_id = AdminId
  /\ \E i \in 1..Len(ratings) :
       /\ ratings[i].user_id = RaterId
       /\ ratings[i].rating = req[1].body.rating.h \div 2
       /\ ratings[i].created_at = req[1].at
  /\ \A i \in 1..Len(SeededRatings) : ratings[i] = SeededRatings[i]

---------------------------------------------------------------------------
(* SpecChecks: the routes that write are called by every kind of caller    *)
(* with sound and unsound payloads.                                        *)

CheckTokens ==
  { NoToken, Forged(AdminId, "admin", Epoch), TokenOf(OwnerId, Epoch), TokenOf(AdminId, Epoch) }

CheckRequests ==
  { Request(AddUserRoute, token, body) :
      token \in CheckTokens,
      body \in { UserBody(Rep("c", NameMin), Email("c"), GoodPassword, ShortAddress, <<>>),
                 UserBody(Rep("c", NameMin), <<"c">>, ShortPassword, ShortAddress, <<>>),
                 NoBody } }
  \cup { Request(PasswordRoute, token, PasswordBody(RaterId, password)) :
           token \in CheckTokens, password \in { NewPassword, ShortPassword, <<>> } }
  \cup { Request(AddStoreRoute, token, body) :
           token \in CheckTokens,
           body \in { StoreBody(<<"S","3">>, ShortAddress, OwnerId), NoBody } }
  \cup { Request(RatingRoute, token, body) :
           token \in CheckTokens,
           body \in { RatingBody(SeededStores[1].id, Num(2 * RatingMax)), NoBody } }

\* the requests of the second caller: a password, the rater's, is changed
\* while the first caller's request is under way
ConcurrentRequests ==
  { r \in CheckRequests : r.route = PasswordRoute /\ r.token.sig = "valid" }

NextChecks ==
  \/ \E r \in CheckRequests : Receive(1, r)
  \/ \E r \in ConcurrentRequests : Receive(2, r)
  \/ \E c \in Callers : CompleteUser(c)
  \/ \E c \in Callers : CompletePassword(c)
  \/ \E c \in Callers : CompleteStore(c)
  \/ \E c \in Callers : CompleteRating(c)

SpecChecks == InitSeeded /\ [][NextChecks]_vars

\* the caller is not allowed the request: the route is the admin's and the
\* caller is no admin, or the password is another user's and the caller is
\* no admin
NotAllowed(r) ==
  \/ r.route \in { AddUserRoute, AddStoreRoute } /\ r.token.role # "admin"
  \/ r.route = PasswordRoute /\ r.token.id # r.body.id /\ r.token.role # "admin"

\* the payload of the request breaks a rule of its route
UnsoundPayload(r) ==
  \/ r.route = AddUserRoute /\ BrokenRules(r.body) # {}
  \/ r.route = PasswordRoute /\ ViolatesPasswordRule(r.body.password)
  \/ r.route = AddStoreRoute
       /\ (r.body.name = <<>> \/ r.body.address = <<>> \/ r.body.owner_id = 0)
  \/ r.route = RatingRoute
       /\ \/ r.body.store_id = 0
          \/ r.body.rating = Null
          \/ r.body.rating.h < 2 * RatingMin
          \/ r.body.rating.h > 2 * RatingMax

\* C27: a request to a protected route is answered by the first check it
\* fails, in the order authentication (401 or 403 "Invalid token"),
\* authorization (403 "Access denied"), payload validation (400), and only
\* a request that passed all three reaches the storage write; so a
\* non-admin's POST /users with an unsound payload, and a PUT of another
\* user's password by a non-admin with the password missing or unsound,
\* get 403 and not 400.
C27_ChecksInOrder ==
  [][ /\ \A c \in Callers :
           Arrives(c) =>
             IF ~GoodToken(req'[c].token, req'[c].at)
               THEN req'[c].pc = "done" /\ Outcome(req'[c]) \in Unauthenticated
             ELSE IF NotAllowed(req'[c])
               THEN req'[c].pc = "done" /\ Outcome(req'[c]) = Forbidden
             ELSE IF UnsoundPayload(req'[c])
               THEN req'[c].pc = "done" /\ req'[c].status = 400
             ELSE req'[c].pc = "pending"
      /\ <<users, stores, ratings>> # <<users', stores', ratings'>> =>
           \E c \in Callers :
             /\ req[c].pc = "pending" /\ req'[c].pc = "done"
             /\ GoodToken(req[c].token, req[c].at)
             /\ ~NotAllowed(req[c])
             /\ ~UnsoundPayload(req[c]) ]_vars

\* a normal user's POST /users with an unsound payload and the same user's
\* PUT of another's password with no password were both answered 403
C27_Witness ==
  /\ req[1].pc = "done"
  /\ req[1].route = AddUserRoute
  /\ req[1].token = TokenOf(OwnerId, Epoch)
  /\ BrokenRules(req[1].body) # {}
  /\ Outcome(req[1]) = Forbidden
  /\ req[2].pc = "done"
  /\ req[2].route = PasswordRoute
  /\ req[2].token = TokenOf(OwnerId, Epoch)
  /\ req[2].body.id # OwnerId
  /\ req[2].body.password = <<>>
  /\ Outcome(req[2]) = Forbidden

---------------------------------------------------------------------------
(* SpecProfile: users log in and submit the password form of the profile   *)
(* page.                                                                   *)

\* "Abcdef1_": a password the server's expression accepts and the form's
\* class of special characters does not hold
UnderscorePassword == <<"A","b","c","d","e","f","1","_">>

ProfileCredentials ==
  { LoginBody(Email(local), p) : local \in { "a", "n" }, p \in { GoodPassword, NewPassword } }

ProfileForms ==
  { PasswordForm(current, new, confirm) :
      current \in { GoodPassword, <<>> },
      new \in { NewPassword, UnderscorePassword, ShortPassword },
      confirm \in { NewPassword, UnderscorePassword } }

NextProfile ==
  \/ \E c \in Callers, credentials \in ProfileCredentials : ClientLogin(c, credentials)
  \/ \E c \in Callers : CompleteLogin(c)
  \/ \E c \in Callers : ClientSettle(c)
  \/ \E c \in Callers, form \in ProfileForms : ClientChangePassword(c, form)
  \/ \E c \in Callers : CompletePassword(c)

SpecProfile == InitSeeded /\ [][NextProfile]_vars

\* C28: when a logged-in user submits the profile page's password form with
\* a new password that passes the form's checks, the request sent is
\* PUT /users/<that user's id>/password with that user's token, and the
\* server answers 200 with the user's stored hash that of the new password.
C28_ProfileFormChangesPassword ==
  \A c \in Callers :
    (req[c].route = PasswordRoute /\ req[c].pc \in { "done", "settled" })
    => /\ req[c].token = localStorage[c]
       /\ req[c].body.id = req[c].token.id
       /\ req[c].status = 200
       /\ \E i \in 1..Len(users) :
            /\ users[i].id = req[c].token.id
            /\ bcryptCompare(req[c].body.password, users[i].password)

---------------------------------------------------------------------------
(* SpecAddUser: the admin logs in and submits the Add User form; visitors  *)
(* sign up.                                                                *)

AdminCredentials == { LoginBody(Email("a"), p) : p \in { GoodPassword, NewPassword } }

UserForms ==
  { UserForm(name, email, ShortAddress, role) :
      name \in { Rep("u", NameMin), <<"u">> },
      email \in { Email("u"), <<"u">> },
      role \in { <<"n","o","r","m","a","l">>, <<"s","t","o","r","e","_","o","w","n","e","r">> } }

VisitorSignups ==
  { UserBody(Rep("w", NameMin), Email("w"), GoodPassword, ShortAddress, <<>>) }

NextAddUser ==
  \/ \E c \in Callers, credentials \in AdminCredentials : ClientLogin(c, credentials)
  \/ \E c \in Callers : CompleteLogin(c)
  \/ \E c \in Callers : ClientSettle(c)
  \/ \E c \in Callers, form \in UserForms : ClientAddUser(c, form)
  \/ \E c \in Callers, userData \in VisitorSignups : ClientSignup(c, userData)
  \/ \E c \in Callers : CompleteUser(c)

SpecAddUser == InitSeeded /\ [][NextAddUser]_vars

\* C29: when an admin submits the Add User form with values that pass the
\* form's checks, the request the client sends to POST /users passes
\* validateUserPayload, is answered 201, and a user row with the form's
\* email is stored.
C29_AddUserFormPersists ==
  \A c \in Callers :
    ( /\ req[c].route = AddUserRoute
      /\ req[c].pc \in { "done", "settled" }
      /\ GoodToken(req[c].token, req[c].at)
      /\ req[c].token.role = "admin" )
    => /\ req[c].ran
       /\ req[c].status = 201
       /\ \E i \in 1..Len(users) : users[i].email = toLowerCase(req[c].body.email)

---------------------------------------------------------------------------
(* SpecAddStore: the admin logs in and submits the Add Store form; the     *)
(* route is also called with the body the server reads.                    *)

StoreForms ==
  { StoreForm(name, email, ShortAddress, ownerId) :
      name \in { <<"S","3">>, <<>> },
      email \in { Email("s"), <<"s">> },
      ownerId \in { OwnerId, 0 } }

\* bodies with the key owner_id, as a caller of the API other than the form
\* sends them
DirectStoreBodies == { StoreBody(<<"S","4">>, ShortAddress, OwnerId) }

NextAddStore ==
  \/ \E c \in Callers, credentials \in AdminCredentials : ClientLogin(c, credentials)
  \/ \E c \in Callers : CompleteLogin(c)
  \/ \E c \in Callers : ClientSettle(c)
  \/ \E c \in Callers, form \in StoreForms : ClientAddStore(c, form)
  \/ \E c \in Callers, body \in DirectStoreBodies : ClientFetch(c, AddStoreRoute, body)
  \/ \E c \in Callers : CompleteStore(c)

SpecAddStore == InitSeeded /\ [][NextAddStore]_vars

\* C30: when an admin submits the Add Store form with values that pass the
\* form's checks, the request the client sends to POST /stores passes the
\* server's required-field check, is answered 201, and a store row with the
\* form's name and owner is stored.
C30_AddStoreFormPersists ==
  \A c \in Callers :
    ( /\ req[c].route = AddStoreRoute
      /\ req[c].pc \in { "done", "settled" }
      /\ req[c].body.ownerId # 0
      /\ GoodToken(req[c].token, req[c].at)
      /\ req[c].token.role = "admin" )
    => /\ req[c].status = 201
       /\ \E i \in 1..Len(stores) :
            /\ stores[i].name = trim(req[c].body.name)
            /\ stores[i].owner_id = req[c].body.ownerId

=============================================================================
